---------------------------- MODULE Spec2Model ----------------------------
(***************************************************************************)
(* Verification model of the statistical_analysis pipeline of              *)
(* value_hierarchy: the cleaning stage (01_load_clean_qualtrics.py), the   *)
(* shared statistics helpers bh_fdr and icc_2_1 (sa_utils.py), and the     *)
(* analysis stages: panel construction and model fitting (sa_utils.py,     *)
(* 09_A5, 13_B3), PC1 residualisation (06_A2), mixture selection (12_B2)   *)
(* and profile signatures (14_B4).  Each routine has its own               *)
(* specification; the variables of the other routines stay idle in it.     *)
(*                                                                         *)
(* Conventions                                                             *)
(*  - a table cell is a record [k, v]: k = "num" (a number v), "nan" (a    *)
(*    missing value) or "text" (a cell pandas cannot parse as a number);   *)
(*  - a float that the code compares is kept exact: thresholds are         *)
(*    rationals num/den and comparisons are cross-multiplied;              *)
(*  - an optional argument (m: int | None) is a sequence of length <= 1.   *)
(***************************************************************************)
EXTENDS Integers, Sequences, FiniteSets, TLC

VARIABLES
    pc,         \* position of the running routine
    raised,     \* the exception the routine raised, "none" if none
    raw,        \* stage 1: the imported table [hasFinished, hasResponseId, rows]
    files,      \* stage 1: the artifacts written so far
    df,         \* the table given to apply_cleaning (rows carry their index label)
    cfg,        \* the CleaningConfig given to apply_cleaning
    keep_mask,  \* apply_cleaning: completeness mask, by row position
    flat_mask,  \* apply_cleaning: flatliner mask, by row position
    kept,       \* apply_cleaning: the kept table
    dropped,    \* apply_cleaning: the rejected table (rows carry drop_reason)
    pvals,      \* bh_fdr: the p-values passed, numerators over PDen
    m,          \* bh_fdr: the declared family size, <<>> for None
    ranked,     \* bh_fdr: the ascending rank of each p-value
    q,          \* bh_fdr: the q-values returned, each a fraction <<num, den>>
    rejected,   \* bh_fdr: the rejection flags returned
    r1,         \* icc_2_1: first rating vector
    r2,         \* icc_2_1: second rating vector
    icc,        \* icc_2_1: the value returned
    df_wide,    \* panel construction: the wide table [columns, rows]
    maps,       \* panel construction: block -> {pair -> column}
    panel_long, \* panel construction: the long panel built
    panel,      \* model fitting: the long panel given to a fitting routine
    routine,    \* model fitting: the routine called, with its arguments
    work,       \* model fitting: the positions of the panel rows in the fitted sample
    fit,        \* model fitting: what the fit gave ("fit", "nan", "fails", "none")
    loo,        \* lobo / lopo: the result rows [omitted, sample]
    params,     \* context interaction: names of the coefficients of the fitted model
    slopes,     \* context interaction: blocks whose simple slope was computed
    report,     \* context interaction: the report tables written
    pc1,        \* residualisation: PC1 score of each participant
    items,      \* residualisation: item column -> value of each participant
    df_res,     \* residualisation: item column -> residual of each participant
    bic_of,     \* fit_gmm_bic: the BIC of the mixture fitted with k components
    k_range,    \* fit_gmm_bic: <<k_min, k_max>>
    best,       \* fit_gmm_bic: n_components of the model returned, <<>> for None
    bics,       \* fit_gmm_bic: the BIC table returned
    df_block,   \* signature_for_block: the wide table [columns, rows]
    mapping,    \* signature_for_block: the pairs of the block, each with its column
    focal,      \* signature_for_block: the focal values of the profile
    parts,      \* signature_for_block: the items included, each with its orientation
    signature,  \* signature_for_block: the signature of each participant
    obs,        \* fit_echo_slope: the observations [y, x, id]
    echo,       \* fit_echo_slope: the tuple returned
    df_clean,   \* block structure: the cleaned wide table [columns, rows]
    block_maps, \* block structure: the blocks, each with its item columns
    structure,  \* block structure: the rows of the output table
    callee,     \* table passing: the routine called, with its other arguments
    before,     \* table passing: the cells of the caller's table when it is passed
    passed,     \* table passing: the cells of the caller's table now
    returned,   \* table passing: what the routine returned
    pair_no,    \* generation: position of the value pair being processed
    hyp_no,     \* generation: position of the hypothesis being processed
    pair_results, \* generation: the entries appended for the pair so far
    answered,   \* generation: per pair, every generation call returned text
    saved,      \* generation: the calls of save_to_pdf, in order
    empties,    \* generation: how many calls of the client returned nothing
    moderation, \* cluster moderation: the dict fit_block returned
    means,      \* ICC stage: the Phase-II mean of each participant of the cleaned table
    p1_table,   \* ICC stage: the baseline table [ResponseId, MEAN]
    merged,     \* ICC stage: means restricted to the participants of p1
    pair_name,  \* split_pair_name: the name given, a sequence of characters
    split,      \* split_pair_name: the tuple returned
    design      \* context coding: the block columns of each row of the fitted sample

vars == <<pc, raised, raw, files, df, cfg, keep_mask, flat_mask, kept, dropped,
          pvals, m, ranked, q, rejected, r1, r2, icc,
          df_wide, maps, panel_long, panel, routine, work, fit, loo,
          params, slopes, report, pc1, items, df_res,
          bic_of, k_range, best, bics,
          df_block, mapping, focal, parts, signature, obs, echo,
          df_clean, block_maps, structure, callee, before, passed, returned,
          pair_no, hyp_no, pair_results, answered, saved, empties, moderation,
          means, p1_table, merged, pair_name, split, design>>

cleanVars == <<raw, files, df, cfg, keep_mask, flat_mask, kept, dropped>>
bhVars == <<pvals, m, ranked, q, rejected>>
iccVars == <<r1, r2, icc>>
longVars == <<df_wide, maps, panel_long>>
fitVars == <<panel, routine, work, fit, loo>>
ctxVars == <<params, slopes, report>>
residVars == <<pc1, items, df_res>>
gmmVars == <<bic_of, k_range, best, bics>>
sigVars == <<df_block, mapping, focal, parts, signature>>
echoVars == <<obs, echo>>
\* the state of the cleaning stage and of the helpers bh_fdr and icc_2_1
helperVars == <<cleanVars, bhVars, iccVars>>
\* the state of the analysis stages
b1Vars == <<df_clean, block_maps, structure>>
frameVars == <<callee, before, passed, returned>>
genVars == <<pair_no, hyp_no, pair_results, answered, saved, empties>>
modVars == <<moderation>>
a4Vars == <<means, p1_table, merged>>
splitVars == <<pair_name, split>>
codeVars == <<design>>
lateVars == <<b1Vars, frameVars, genVars, modVars, a4Vars, splitVars, codeVars>>
analysisVars ==
    <<longVars, fitVars, ctxVars, residVars, gmmVars, sigVars, echoVars, lateVars>>

-----------------------------------------------------------------------------
(* Bounds of the model *)

\* most rows of a table given directly to apply_cleaning
MaxRows == 2
\* most rows of the export imported by the stage's main
MaxImportRows == 2
\* most p-values in one bh_fdr call
MaxLen == 3
\* most ratings in one icc_2_1 vector
MaxRatings == 4

-----------------------------------------------------------------------------
(* Generic helpers *)

RECURSIVE SeqSum(_)
SeqSum(s) == IF s = <<>> THEN 0 ELSE Head(s) + SeqSum(Tail(s))

Abs(x) == IF x < 0 THEN -x ELSE x

SeqsUpTo(S, n) == UNION {[1..k -> S] : k \in 0..n}

\* the positions of s that satisfy the mask, in order (boolean indexing)
RECURSIVE SelectIdx(_, _)
SelectIdx(mask, i) ==
    IF i > Len(mask) THEN <<>>
    ELSE (IF mask[i] THEN <<i>> ELSE <<>>) \o SelectIdx(mask, i + 1)

-----------------------------------------------------------------------------
(* Cells and columns *)

NaN == [k |-> "nan", v |-> 0]
Text == [k |-> "text", v |-> 0]
Num(x) == [k |-> "num", v |-> x]

\* pd.to_numeric(..., errors="coerce"): what does not parse becomes missing
to_numeric(c) == IF c.k = "num" THEN c ELSE NaN

notna(c) == c.k # "nan"

\* a column name is <<prefix, rest>>; str.startswith compares the prefix
startswith(c, pref) == c[1] = pref

P1Prefix == "P1Q-"
Phase2Prefixes == {"QH1-", "QH2-", "QH3-", "QH5-", "QH6-"}

\* the slider columns of the modelled export: one baseline item, two block items
SliderColumns == {<<"P1Q-", "1">>, <<"QH1-", "1">>, <<"QH2-", "1">>}
\* a column that follows no slider convention
OtherColumns == {<<"Q", "Duration">>}
\* a slider column a configuration may list although the table lacks it
AbsentColumn == <<"QH3-", "1">>

-----------------------------------------------------------------------------
(* apply_cleaning (01_load_clean_qualtrics.py)                             *)
(* A table is a sequence of rows [label, ResponseId, Finished, cells];     *)
(* label is the row's pandas index label, cells maps each column of the    *)
(* table to its cell.  Every modelled table has the columns SliderColumns. *)

TableColumns == SliderColumns

\* _coerce_numeric: the listed columns that exist are coerced, the others kept
coerce_numeric(t, cols) ==
    [i \in 1..Len(t) |->
        [t[i] EXCEPT !.cells =
            [c \in DOMAIN t[i].cells |->
                IF c \in cols THEN to_numeric(t[i].cells[c]) ELSE t[i].cells[c]]]]

\* the numbers a row holds in the given columns (pandas skips missing values)
RECURSIVE RowValues(_, _)
RowValues(row, cols) ==
    IF cols = {} THEN <<>>
    ELSE LET c == CHOOSE x \in cols : TRUE
         IN  (IF row.cells[c].k = "num" THEN <<row.cells[c].v>> ELSE <<>>)
             \o RowValues(row, cols \ {c})

\* df[present_cols].notna().sum(axis=1) for one row
nonnull_count(row, cols) == Cardinality({c \in cols : notna(row.cells[c])})

\* completeness >= cfg.completeness_threshold, the threshold being thr_num/thr_den
KeepMaskMutStrict(row, c) ==
    LET present_cols == {x \in c.slider_cols : x \in TableColumns}
    IN  nonnull_count(row, present_cols) * c.thr_den > c.thr_num * c.total_slider_expected

KeepMask(row, c) ==
    LET present_cols == {x \in c.slider_cols : x \in TableColumns}
    IN  nonnull_count(row, present_cols) * c.thr_den >= c.thr_num * c.total_slider_expected

\* std(axis=1, ddof=0) < floor: NaN (no value) compares False
StdBelow(xs, floor) ==
    LET n == Len(xs)
        s1 == SeqSum(xs)
        s2 == SeqSum([i \in 1..n |-> xs[i] * xs[i]])
    IN  /\ n > 0
        /\ n * s2 - s1 * s1 < floor * floor * n * n

\* twice the median of a non-empty sequence (the mean of the two middle values
\* when the count is even)
Median2(xs) ==
    LET n == Len(xs)
        s == SortSeq(xs, LAMBDA a, b : a < b)
    IN  IF n % 2 = 1 THEN 2 * s[(n + 1) \div 2]
        ELSE s[n \div 2] + s[n \div 2 + 1]

\* median(|x - median(x)|) < floor, all quantities scaled to stay integral
MadBelow(xs, floor) ==
    LET n == Len(xs)
        med2 == Median2(xs)
        dev2 == [i \in 1..n |-> Abs(2 * xs[i] - med2)]
    IN  /\ n > 0
        /\ Median2(dev2) < 4 * floor

FlatMaskMutOr(row, c) ==
    LET p2_cols == {x \in c.phase2_cols : x \in TableColumns}
        xs == RowValues(row, p2_cols)
    IN  StdBelow(xs, c.sd_floor) \/ MadBelow(xs, c.mad_floor)

\* flat_mask = (std_vals < cfg.sd_floor) & (mad_vals < cfg.mad_floor)
FlatMask(row, c) ==
    LET p2_cols == {x \in c.phase2_cols : x \in TableColumns}
        xs == RowValues(row, p2_cols)
    IN  StdBelow(xs, c.sd_floor) /\ MadBelow(xs, c.mad_floor)

\* Series.iloc[i] with an integer i: positional, negative from the end
IlocInRange(i, n) == -n <= i /\ i < n
IlocPos(i, n) == IF i >= 0 THEN i + 1 ELSE n + i + 1

\* ";".join(r) if r else "other"
JoinReasons(incomplete, flat) ==
    IF incomplete /\ flat THEN "incomplete;flatliner"
    ELSE IF incomplete THEN "incomplete"
    ELSE IF flat THEN "flatliner"
    ELSE "other"

\* reset_index(drop=True)
reset_index(t) == [i \in 1..Len(t) |-> [t[i] EXCEPT !.label = i - 1]]

\* the whole of apply_cleaning: the masks, the two tables, or the IndexError of
\* keep_mask.iloc[i] when a rejected row's label is no position of the table
\* keep_final = keep_mask & (~flat_mask), for one row
KeepFinalMutKeepMask(km, fm) == km
KeepFinal(km, fm) == km /\ ~fm

apply_cleaning(t, c) ==
    LET d == coerce_numeric(t, c.slider_cols)
        n == Len(d)
        km == [i \in 1..n |-> KeepMask(d[i], c)]
        fm == [i \in 1..n |-> FlatMask(d[i], c)]
        keep_final == [i \in 1..n |-> KeepFinal(km[i], fm[i])]
        keptIdx == SelectIdx(keep_final, 1)
        dropIdx == SelectIdx([i \in 1..n |-> ~keep_final[i]], 1)
        reason(i) ==
            LET lab == d[i].label
                p == IlocPos(lab, n)
            IN  JoinReasons(~km[p], fm[p])
        bad == \E j \in 1..Len(dropIdx) : ~IlocInRange(d[dropIdx[j]].label, n)
    IN  [keep_mask |-> km,
         flat_mask |-> fm,
         raised |-> IF bad THEN "IndexError" ELSE "none",
         kept |-> IF bad THEN <<>>
                  ELSE reset_index([j \in 1..Len(keptIdx) |-> d[keptIdx[j]]]),
         dropped |-> IF bad THEN <<>>
                     ELSE [j \in 1..Len(dropIdx) |->
                              [label |-> j - 1,
                               ResponseId |-> d[dropIdx[j]].ResponseId,
                               Finished |-> d[dropIdx[j]].Finished,
                               cells |-> d[dropIdx[j]].cells,
                               drop_reason |-> reason(dropIdx[j])]]]

-----------------------------------------------------------------------------
(* Inputs of apply_cleaning called on its own *)

P1Columns == {c \in SliderColumns : startswith(c, P1Prefix)}
P2Columns == {c \in SliderColumns : \E pref \in Phase2Prefixes : startswith(c, pref)}

\* CleaningConfig: the defaults of the dataclass, and configurations that put
\* the boundaries of the filters within reach of a three-column table
DefaultCfg ==
    [slider_cols |-> SliderColumns, phase2_cols |-> P2Columns,
     total_slider_expected |-> 84, thr_num |-> 4, thr_den |-> 5,
     sd_floor |-> 4, mad_floor |-> 3]

CfgSet ==
    { DefaultCfg,
      [DefaultCfg EXCEPT !.total_slider_expected = 3, !.thr_num = 2, !.thr_den = 3,
                         !.sd_floor = 2],
      [DefaultCfg EXCEPT !.total_slider_expected = 3, !.thr_num = 2, !.thr_den = 3,
                         !.mad_floor = 2],
      [DefaultCfg EXCEPT !.slider_cols = SliderColumns \cup {AbsentColumn},
                         !.total_slider_expected = 4, !.thr_num = 1, !.thr_den = 2] }

\* what a cell of a baseline column, resp. of a block column, may hold: the
\* baseline column carries the unparseable cells, the block columns the missing
P1Cells == {Text, Num(0)}
P2Cells == {NaN, Num(0), Num(4)}

CellRows ==
    {f \in [SliderColumns -> P1Cells \cup P2Cells] :
        /\ \A c \in P1Columns : f[c] \in P1Cells
        /\ \A c \in P2Columns : f[c] \in P2Cells}

\* identifiers of the rows of a directly given table, by position
RowIds == <<"R1", "R2", "R3", "R4">>

\* index labels of a table of n rows: the default RangeIndex, the same reversed,
\* and labels shifted by one (as left by a filter upstream that removed row 0)
IndexLabelings(n) ==
    { [i \in 1..n |-> i - 1], [i \in 1..n |-> n - i], [i \in 1..n |-> i] }

\* values of the variables of the routines a specification does not run
NoRaw ==
    [hasFinished |-> FALSE, hasResponseId |-> FALSE, rows |-> <<>>,
     thr_num |-> 0, thr_den |-> 1, sd_floor |-> 0, mad_floor |-> 0]
NoIcc == [kind |-> "none", num |-> 0, den |-> 1]
IdleBH == pvals = <<>> /\ m = <<>> /\ ranked = <<>> /\ q = <<>> /\ rejected = <<>>
IdleICC == r1 = <<>> /\ r2 = <<>> /\ icc = NoIcc
IdleClean ==
    /\ raw = NoRaw /\ files = {} /\ df = <<>> /\ cfg = DefaultCfg
    /\ keep_mask = <<>> /\ flat_mask = <<>> /\ kept = <<>> /\ dropped = <<>>

NoTable == [columns |-> {}, rows |-> <<>>]
NoCall == [name |-> "none"]
NoEcho == [kind |-> "none", sample |-> <<>>]
IdleLong == df_wide = NoTable /\ maps = <<>> /\ panel_long = <<>>
IdleFit == panel = <<>> /\ routine = NoCall /\ work = <<>> /\ fit = "none" /\ loo = <<>>
IdleCtx == params = {} /\ slopes = {} /\ report = {}
IdleResid == pc1 = <<>> /\ items = <<>> /\ df_res = <<>>
IdleGmm == bic_of = <<>> /\ k_range = <<>> /\ best = <<>> /\ bics = <<>>
IdleSig ==
    /\ df_block = NoTable /\ mapping = <<>> /\ focal = {}
    /\ parts = <<>> /\ signature = <<>>
IdleEcho == obs = <<>> /\ echo = NoEcho
IdleHelpers == IdleClean /\ IdleBH /\ IdleICC
IdleB1 == df_clean = NoTable /\ block_maps = <<>> /\ structure = <<>>
IdleFrame == callee = NoCall /\ before = <<>> /\ passed = <<>> /\ returned = <<>>
IdleGen ==
    /\ pair_no = 0 /\ hyp_no = 0 /\ pair_results = <<>>
    /\ answered = <<>> /\ saved = <<>> /\ empties = 0
IdleMod == moderation = NoCall
IdleA4 == means = <<>> /\ p1_table = <<>> /\ merged = <<>>
IdleSplit == pair_name = <<>> /\ split = NoCall
IdleCode == design = <<>>
IdleLate == IdleB1 /\ IdleFrame /\ IdleGen /\ IdleMod /\ IdleA4 /\ IdleSplit /\ IdleCode
IdleAnalysis ==
    /\ IdleLong /\ IdleFit /\ IdleCtx /\ IdleResid /\ IdleGmm /\ IdleSig /\ IdleEcho
    /\ IdleLate

InitClean ==
    /\ pc = "apply_cleaning"
    /\ raised = "none"
    /\ raw = NoRaw
    /\ files = {}
    /\ \E n \in 0..MaxRows :
         \E cells \in [1..n -> CellRows] :
           \E labels \in IndexLabelings(n) :
             df = [i \in 1..n |->
                     [label |-> labels[i], ResponseId |-> RowIds[i],
                      Finished |-> "True", cells |-> cells[i]]]
    /\ cfg \in CfgSet
    /\ keep_mask = <<>> /\ flat_mask = <<>> /\ kept = <<>> /\ dropped = <<>>
    /\ IdleBH
    /\ IdleICC
    /\ IdleAnalysis

\* kept, dropped = apply_cleaning(df, cfg)
CallApplyCleaning ==
    /\ pc = "apply_cleaning"
    /\ LET r == apply_cleaning(df, cfg)
       IN  /\ keep_mask' = r.keep_mask
           /\ flat_mask' = r.flat_mask
           /\ kept' = r.kept
           /\ dropped' = r.dropped
           /\ raised' = r.raised
           /\ pc' = IF r.raised = "none" THEN "done" ELSE "raised"
    /\ UNCHANGED <<raw, files, df, cfg>>
    /\ UNCHANGED bhVars /\ UNCHANGED iccVars
    /\ UNCHANGED analysisVars

NextClean == CallApplyCleaning

SpecClean == InitClean /\ [][NextClean]_vars

-----------------------------------------------------------------------------
(* Claims about apply_cleaning, stated on the input table df and on the    *)
(* returned tables, with the statistics recomputed from their definitions  *)

\* the values of a sequence
Range(s) == {s[i] : i \in 1..Len(s)}

\* the k-th smallest value of xs, by counting
KthSmallest(xs, k) ==
    CHOOSE v \in Range(xs) :
        /\ Cardinality({i \in 1..Len(xs) : xs[i] < v}) < k
        /\ Cardinality({i \in 1..Len(xs) : xs[i] <= v}) >= k

\* twice the median of xs
TwiceMedian(xs) ==
    KthSmallest(xs, (Len(xs) + 1) \div 2) + KthSmallest(xs, Len(xs) \div 2 + 1)

\* the numbers the input row holds in the Phase-II columns of the configuration
Phase2Numbers(row) ==
    RowValues(row, {c \in cfg.phase2_cols : c \in DOMAIN row.cells})

\* the slider values of the input row that are numbers
NonMissingCount(row) ==
    Cardinality({c \in cfg.slider_cols \cap DOMAIN row.cells : row.cells[c].k = "num"})

\* count / total_slider_expected >= completeness_threshold
Complete(row) ==
    NonMissingCount(row) * cfg.thr_den >= cfg.thr_num * cfg.total_slider_expected

\* population variance of xs against floor^2: -1 below, 0 equal, 1 above
\* (variance = sum((n*x - S)^2) / n^3)
SdVsFloor(xs, floor) ==
    LET n == Len(xs)
        S == SeqSum(xs)
        dev == SeqSum([i \in 1..n |-> (n * xs[i] - S) * (n * xs[i] - S)])
        rhs == floor * floor * n * n * n
    IN  IF dev < rhs THEN -1 ELSE IF dev = rhs THEN 0 ELSE 1

\* median absolute deviation of xs against floor: -1 below, 0 equal, 1 above
MadVsFloor(xs, floor) ==
    LET n == Len(xs)
        med2 == TwiceMedian(xs)
        mad4 == TwiceMedian([i \in 1..n |-> Abs(2 * xs[i] - med2)])
    IN  IF mad4 < 4 * floor THEN -1 ELSE IF mad4 = 4 * floor THEN 0 ELSE 1

\* SD strictly below sd_floor and MAD strictly below mad_floor
Flatliner(row) ==
    LET xs == Phase2Numbers(row)
    IN  /\ xs # <<>>
        /\ SdVsFloor(xs, cfg.sd_floor) = -1
        /\ MadVsFloor(xs, cfg.mad_floor) = -1

InKept(id) == \E j \in 1..Len(kept) : kept[j].ResponseId = id
InDropped(id) == \E j \in 1..Len(dropped) : dropped[j].ResponseId = id

\* C1: a participant passes the completeness filter iff non-missing count /
\* total_slider_expected >= completeness_threshold; a participant who is no
\* flatliner is kept iff so, and one below the threshold is rejected.
C1_Completeness ==
    /\ pc \in {"done", "raised"} =>
         \A i \in 1..Len(df) : keep_mask[i] <=> Complete(df[i])
    /\ pc = "done" =>
         \A i \in 1..Len(df) :
            /\ ~flat_mask[i] => (InKept(df[i].ResponseId) <=> Complete(df[i]))
            /\ ~Complete(df[i]) => InDropped(df[i].ResponseId)

\* a participant exactly at threshold * total is kept, one with one value fewer
\* is rejected
C1_Witness ==
    /\ pc = "done"
    /\ \E i, j \in 1..Len(df) :
         /\ NonMissingCount(df[i]) * cfg.thr_den = cfg.thr_num * cfg.total_slider_expected
         /\ ~flat_mask[i]
         /\ InKept(df[i].ResponseId)
         /\ NonMissingCount(df[j]) = NonMissingCount(df[i]) - 1
         /\ InDropped(df[j].ResponseId)

\* C2: a participant is flagged as a flatliner iff SD < sd_floor and
\* MAD < mad_floor over the Phase-II columns; SD exactly at its floor, or MAD
\* exactly at its floor, is not flagged whatever the other statistic.
C2_Flatliner ==
    pc \in {"done", "raised"} =>
        \A i \in 1..Len(df) :
            LET xs == Phase2Numbers(df[i])
            IN  /\ flat_mask[i] <=> Flatliner(df[i])
                /\ (xs # <<>> /\ SdVsFloor(xs, cfg.sd_floor) = 0) => ~flat_mask[i]
                /\ (xs # <<>> /\ MadVsFloor(xs, cfg.mad_floor) = 0) => ~flat_mask[i]

\* a complete participant with SD exactly sd_floor and MAD below mad_floor is kept
C2_Witness ==
    /\ pc = "done"
    /\ \E i \in 1..Len(df) :
         LET xs == Phase2Numbers(df[i])
         IN  /\ xs # <<>>
             /\ SdVsFloor(xs, cfg.sd_floor) = 0
             /\ MadVsFloor(xs, cfg.mad_floor) = -1
             /\ InKept(df[i].ResponseId)

\* the same with MAD exactly mad_floor and SD below sd_floor
C2_WitnessMad ==
    /\ pc = "done"
    /\ \E i \in 1..Len(df) :
         LET xs == Phase2Numbers(df[i])
         IN  /\ xs # <<>>
             /\ MadVsFloor(xs, cfg.mad_floor) = 0
             /\ SdVsFloor(xs, cfg.sd_floor) = -1
             /\ InKept(df[i].ResponseId)

\* the ';'-joined list of the filters the participant failed
ExpectedReason(row) ==
    IF ~Complete(row) /\ Flatliner(row) THEN "incomplete;flatliner"
    ELSE IF ~Complete(row) THEN "incomplete"
    ELSE IF Flatliner(row) THEN "flatliner"
    ELSE "none failed"

\* C3: for every input table, whatever its index labels, each row of the
\* rejected table carries the ';'-joined list of the filters that this same
\* participant failed, and never 'other'.
C3_DropReason ==
    pc = "done" =>
        \A j \in 1..Len(dropped) :
            /\ dropped[j].drop_reason # "other"
            /\ \A i \in 1..Len(df) :
                 df[i].ResponseId = dropped[j].ResponseId =>
                    dropped[j].drop_reason = ExpectedReason(df[i])

\* C3 where the table has the default RangeIndex (as main always passes it)
C3_DropReasonRangeIndex ==
    (pc = "done" /\ \A i \in 1..Len(df) : df[i].label = i - 1) =>
        \A j \in 1..Len(dropped) :
            /\ dropped[j].drop_reason # "other"
            /\ \A i \in 1..Len(df) :
                 df[i].ResponseId = dropped[j].ResponseId =>
                    dropped[j].drop_reason = ExpectedReason(df[i])

\* the identifiers of the rows of a table, in order
IdsOf(t) == [j \in 1..Len(t) |-> t[j].ResponseId]

\* the identifiers of the input rows that pass completeness and are no
\* flatliner, resp. of the other input rows, in input order
PassingIds ==
    IdsOf(SelectSeq(df, LAMBDA row : Complete(row) /\ ~Flatliner(row)))
FailingIds ==
    IdsOf(SelectSeq(df, LAMBDA row : ~(Complete(row) /\ ~Flatliner(row))))

\* C27: apply_cleaning partitions its input: every input row is in exactly
\* one of the kept and the rejected table, the two together have as many
\* rows as the input, rows keep their input order within each table, and a
\* row is kept iff it passes completeness and is no flatliner.
C27_Partition ==
    pc = "done" =>
        /\ Len(kept) + Len(dropped) = Len(df)
        /\ \A i \in 1..Len(df) :
              Cardinality({j \in 1..Len(kept) : kept[j].ResponseId = df[i].ResponseId})
              + Cardinality({j \in 1..Len(dropped) :
                               dropped[j].ResponseId = df[i].ResponseId}) = 1
        /\ IdsOf(kept) = PassingIds
        /\ IdsOf(dropped) = FailingIds

\* of two input rows the first was rejected as a flatliner and the second
\* kept
C27_Witness ==
    /\ pc = "done"
    /\ Len(df) = 2
    /\ Complete(df[1]) /\ Flatliner(df[1])
    /\ IdsOf(kept) = <<df[2].ResponseId>>
    /\ IdsOf(dropped) = <<df[1].ResponseId>>

\* two input rows were both kept, in input order
C27_WitnessOrder ==
    /\ pc = "done"
    /\ Len(df) = 2
    /\ IdsOf(kept) = <<df[1].ResponseId, df[2].ResponseId>>

-----------------------------------------------------------------------------
(* main of 01_load_clean_qualtrics.py                                      *)
(* raw is the table read_qualtrics_two_header returned: whether it has the *)
(* columns Finished and ResponseId, its rows, and the stage's parameters.  *)

\* a missing ResponseId cell (pandas reads an empty cell as NaN)
NaNId == "<NaN>"

\* Series.astype(str) on identifiers: a missing value becomes the text "nan"
astype_str(x) == IF x = NaNId THEN "nan" ELSE x

\* str.strip on the identifiers of the model
str_strip(x) == IF x = " " THEN "" ELSE x

\* str.lower().str.strip() on the Finished cells of the model
lower_strip(x) ==
    IF x \in {"True", "TRUE "} THEN "true"
    ELSE IF x = "False" THEN "false"
    ELSE x

IdCells == {"R1", "R2", " ", NaNId}
FinishedCells == {"TRUE ", "False"}

\* the slider cells of an imported row: all missing, or all answered
ImportCellRows ==
    { [c \in SliderColumns |-> NaN],
      [c \in SliderColumns |-> IF c[1] = "QH2-" THEN Num(4) ELSE Num(0)] }

\* the parameters of main: the defaults, and a threshold a three-column export
\* can meet against the fixed 84 expected sliders
StageParams ==
    { [thr_num |-> 4, thr_den |-> 5, sd_floor |-> 4, mad_floor |-> 3],
      [thr_num |-> 1, thr_den |-> 42, sd_floor |-> 2, mad_floor |-> 3] }

\* df[df["Finished"].astype(str).str.lower().str.strip() == "true"]
FinishedFilter(rows) ==
    LET idx == SelectIdx([i \in 1..Len(rows) |-> lower_strip(rows[i].Finished) = "true"], 1)
    IN  [j \in 1..Len(idx) |-> rows[idx[j]]]

NonEmptyIdMutMissing(x) == x # NaNId /\ str_strip(astype_str(x)) # ""

\* ~df["ResponseId"].astype(str).str.strip().eq("")
NonEmptyId(x) == str_strip(astype_str(x)) # ""

NonEmptyIdFilter(rows) ==
    LET idx == SelectIdx([i \in 1..Len(rows) |-> NonEmptyId(rows[i].ResponseId)], 1)
    IN  [j \in 1..Len(idx) |-> rows[idx[j]]]

\* drop_duplicates(subset=["ResponseId"], keep="first"): missing identifiers
\* count as equal to one another
drop_duplicates(rows) ==
    LET first(i) == \A j \in 1..(i - 1) : rows[j].ResponseId # rows[i].ResponseId
        idx == SelectIdx([i \in 1..Len(rows) |-> first(i)], 1)
    IN  [j \in 1..Len(idx) |-> rows[idx[j]]]

\* detect_slider_columns: (all sliders, Phase-II sliders) by prefix
detect_slider_columns(cols) ==
    LET p1 == {c \in cols : startswith(c, P1Prefix)}
        phase2 == {c \in cols : \E pref \in Phase2Prefixes : startswith(c, pref)}
    IN  [all |-> p1 \cup phase2, phase2 |-> phase2]

InitStage ==
    /\ pc = "main"
    /\ raised = "none"
    /\ \E hf \in BOOLEAN, hr \in BOOLEAN, n \in 0..MaxImportRows, par \in StageParams :
         \E ids \in [1..n -> IF hr THEN IdCells ELSE {"absent"}] :
           \E fin \in [1..n -> IF hf THEN FinishedCells ELSE {"absent"}] :
             \E cells \in [1..n -> ImportCellRows] :
               raw = [hasFinished |-> hf, hasResponseId |-> hr,
                      rows |-> [i \in 1..n |->
                                  [label |-> i - 1, ResponseId |-> ids[i],
                                   Finished |-> fin[i], cells |-> cells[i]]],
                      thr_num |-> par.thr_num, thr_den |-> par.thr_den,
                      sd_floor |-> par.sd_floor, mad_floor |-> par.mad_floor]
    /\ files = {}
    /\ df = <<>> /\ cfg = DefaultCfg
    /\ keep_mask = <<>> /\ flat_mask = <<>> /\ kept = <<>> /\ dropped = <<>>
    /\ IdleBH
    /\ IdleICC
    /\ IdleAnalysis

\* the admin filters when the identifier column exists
AdminFilters(t) ==
    LET finished == IF t.hasFinished THEN FinishedFilter(t.rows) ELSE t.rows
    IN  reset_index(drop_duplicates(NonEmptyIdFilter(finished)))

RequiresResponseIdMutLate(t) == FALSE

\* if "ResponseId" not in df.columns: raise RuntimeError
RequiresResponseId(t) == ~t.hasResponseId

\* lines 148-156: read, admin filters, or the RuntimeError
MainAdmin ==
    /\ pc = "main"
    /\ IF RequiresResponseId(raw)
       THEN /\ raised' = "RuntimeError" /\ pc' = "raised" /\ df' = df
       ELSE /\ raised' = raised /\ pc' = "manifests" /\ df' = AdminFilters(raw)
    /\ UNCHANGED <<raw, files, cfg, keep_mask, flat_mask, kept, dropped>>
    /\ UNCHANGED bhVars /\ UNCHANGED iccVars
    /\ UNCHANGED analysisVars

\* lines 159-169: detect the slider columns and write the two JSON manifests;
\* the table lacks its identifier column only if the check above let it pass
MainManifests ==
    /\ pc = "manifests"
    /\ LET d == detect_slider_columns(TableColumns \cup OtherColumns)
       IN  cfg' = [slider_cols |-> d.all, phase2_cols |-> d.phase2,
                   total_slider_expected |-> 84,
                   thr_num |-> raw.thr_num, thr_den |-> raw.thr_den,
                   sd_floor |-> raw.sd_floor, mad_floor |-> raw.mad_floor]
    /\ files' = files \cup {"out_slider_json", "out_phase2_json"}
    /\ pc' = "clean"
    /\ UNCHANGED <<raised, raw, df, keep_mask, flat_mask, kept, dropped>>
    /\ UNCHANGED bhVars /\ UNCHANGED iccVars
    /\ UNCHANGED analysisVars

\* lines 172-180: kept, dropped = apply_cleaning(df, cfg)
MainClean ==
    /\ pc = "clean"
    /\ LET r == apply_cleaning(df, cfg)
       IN  /\ keep_mask' = r.keep_mask
           /\ flat_mask' = r.flat_mask
           /\ kept' = r.kept
           /\ dropped' = r.dropped
           /\ raised' = r.raised
           /\ pc' = IF r.raised = "none" THEN "save" ELSE "raised"
    /\ UNCHANGED <<raw, files, df, cfg>>
    /\ UNCHANGED bhVars /\ UNCHANGED iccVars
    /\ UNCHANGED analysisVars

\* lines 183-185: write the cleaned table and the rejected table
MainSave ==
    /\ pc = "save"
    /\ files' = files \cup {"out_clean_csv", "out_drop_csv"}
    /\ pc' = "done"
    /\ UNCHANGED <<raised, raw, df, cfg, keep_mask, flat_mask, kept, dropped>>
    /\ UNCHANGED bhVars /\ UNCHANGED iccVars
    /\ UNCHANGED analysisVars

Init == InitStage

Next == MainAdmin \/ MainManifests \/ MainClean \/ MainSave

Spec == Init /\ [][Next]_vars

-----------------------------------------------------------------------------
(* Claims about main of the cleaning stage *)

\* the admin filters have run: df is the table handed to apply_cleaning
AfterAdmin == pc \in {"manifests", "clean", "save", "done"}

\* the rows of the import flagged finished (all of them without the column)
FinishedRawRows ==
    {i \in 1..Len(raw.rows) :
        raw.hasFinished => lower_strip(raw.rows[i].Finished) = "true"}

\* row r of df is the first finished row of the import with its identifier
IsFirstOccurrence(r) ==
    \E i \in FinishedRawRows :
        /\ raw.rows[i].ResponseId = r.ResponseId
        /\ \A j \in FinishedRawRows : raw.rows[j].ResponseId = r.ResponseId => i <= j
        /\ raw.rows[i].cells = r.cells
        /\ raw.rows[i].Finished = r.Finished

\* every row is flagged finished, no two rows share an identifier, and of the
\* finished rows sharing an identifier the first of the input is the one kept
AdminFiltersButMissingIds ==
    AfterAdmin =>
        /\ \A i \in 1..Len(df) :
             /\ raw.hasFinished => lower_strip(df[i].Finished) = "true"
             /\ str_strip(astype_str(df[i].ResponseId)) # ""
             /\ IsFirstOccurrence(df[i])
        /\ \A i, j \in 1..Len(df) : df[i].ResponseId = df[j].ResponseId => i = j

\* C4: the admin filters run before the quality filters, and the table handed
\* to apply_cleaning has only finished rows, each with a non-empty, non-missing
\* identifier, no identifier twice, the first of several finished rows with
\* one identifier being the one retained.
C4_AdminFilters ==
    /\ AdminFiltersButMissingIds
    /\ AfterAdmin =>
         \A i \in 1..Len(df) :
            df[i].ResponseId # NaNId /\ str_strip(df[i].ResponseId) # ""

\* C5: without a ResponseId column the stage raises at once (its first step
\* ends in the RuntimeError) and writes none of its artifacts.
C5_MissingResponseId ==
    ~raw.hasResponseId =>
        /\ files = {}
        /\ pc = "main" \/ (pc = "raised" /\ raised = "RuntimeError")

\* the stage met an export with rows and a Finished column but no ResponseId
C5_Witness ==
    /\ ~raw.hasResponseId
    /\ raw.hasFinished
    /\ Len(raw.rows) > 0
    /\ pc = "raised"
    /\ raised = "RuntimeError"
    /\ files = {}

-----------------------------------------------------------------------------
(* bh_fdr (sa_utils.py)                                                    *)
(* A p-value is a number of hundredths (numerator over PDen); a q-value is *)
(* the exact fraction <<num, den>>, den > 0, compared by cross-multiplying *)

PDen == 100

\* the nominal level 0.05 of the rejection rule
AlphaNum == 5
AlphaDen == 100

\* most declared family sizes m
MaxM == 5

FracLess(a, b) == a[1] * b[2] < b[1] * a[2]
FracLeq(a, b) == a[1] * b[2] <= b[1] * a[2]
FracEq(a, b) == a[1] * b[2] = b[1] * a[2]

PyMinMutMax(a, b) == IF FracLess(b, a) THEN a ELSE b

\* Python's min(a, b): b when b < a, else a
PyMin(a, b) == IF FracLess(b, a) THEN b ELSE a

Orders(n) == {f \in [1..n -> 1..n] : \A i, j \in 1..n : f[i] = f[j] => i = j}

\* np.argsort(p): the orders that sort p ascending; the order among equal
\* p-values is whatever the sort leaves, so every such order is a result
ArgSorts(p) ==
    {o \in Orders(Len(p)) : \A k \in 1..(Len(p) - 1) : p[o[k]] <= p[o[k + 1]]}

FamilySizeMutLen(p, mm) == Len(p)

\* n = int(m) if m is not None else len(p)
FamilySize(p, mm) == IF mm = <<>> THEN Len(p) ELSE mm[1]

\* ranked[order] = np.arange(1, len(p) + 1)
Ranked(order) ==
    [i \in 1..Len(order) |-> CHOOSE k \in 1..Len(order) : order[k] = i]

BackwardMinMutNone(qs, i) == qs

\* for i in range(len - 2, -1, -1): q_sorted[i] = min(q_sorted[i], q_sorted[i + 1]),
\* the loop having reached (1-based) position i
RECURSIVE BackwardMin(_, _)
BackwardMin(qs, i) ==
    IF i < 1 THEN qs
    ELSE BackwardMin([qs EXCEPT ![i] = PyMin(qs[i], qs[i + 1])], i - 1)

RejectMutStrict(pv, rank, n) == pv * n * AlphaDen < rank * AlphaNum * PDen

\* p <= (ranked / n) * 0.05
Reject(pv, rank, n) == pv * n * AlphaDen <= rank * AlphaNum * PDen

\* the whole of bh_fdr for one result of argsort
bh_fdr(p, mm, order) ==
    LET len == Len(p)
        n == FamilySize(p, mm)
        rk == Ranked(order)
        q0 == [i \in 1..len |-> <<p[i] * n, rk[i] * PDen>>]
        q_sorted == BackwardMin([k \in 1..len |-> q0[order[k]]], len - 1)
    IN  [ranked |-> rk,
         q |-> [i \in 1..len |-> q_sorted[rk[i]]],
         rejected |-> [i \in 1..len |-> Reject(p[i], rk[i], n)]]

\* the p-values of the model, in hundredths
PNums == {0, 1, 3, 4, 5, 50}

\* the worked example of the specification: m = 5, p = [0.01, 0.04, 0.03, 0.20, 0.50]
TextbookP == <<1, 4, 3, 20, 50>>
TextbookM == <<5>>

InitBH ==
    /\ pc = "bh_fdr"
    /\ \/ /\ pvals \in SeqsUpTo(PNums, MaxLen)
          /\ m \in {<<>>} \cup {<<k>> : k \in 1..MaxM}
       \/ /\ pvals = TextbookP
          /\ m = TextbookM
    /\ ranked = <<>> /\ q = <<>> /\ rejected = <<>>
    /\ raised = "none"
    /\ IdleClean
    /\ IdleICC
    /\ IdleAnalysis

\* q, rejected = bh_fdr(pvals, m)
CallBhFdr ==
    /\ pc = "bh_fdr"
    /\ \E order \in ArgSorts(pvals) :
         LET r == bh_fdr(pvals, m, order)
         IN  /\ ranked' = r.ranked
             /\ q' = r.q
             /\ rejected' = r.rejected
    /\ pc' = "done"
    /\ UNCHANGED <<raised, pvals, m>>
    /\ UNCHANGED cleanVars /\ UNCHANGED iccVars
    /\ UNCHANGED analysisVars

NextBH == CallBhFdr

SpecBH == InitBH /\ [][NextBH]_vars

-----------------------------------------------------------------------------
(* Claims about bh_fdr *)

\* the declared family size: m, or the number of p-values when m is not given
DeclaredM == IF m = <<>> THEN Len(pvals) ELSE m[1]

\* ranked is an ascending ranking of the p-values passed: the positions 1..len,
\* each once, a smaller p-value never ranked after a larger one
AscendingRanks ==
    /\ Len(ranked) = Len(pvals)
    /\ \A k \in 1..Len(pvals) : \E i \in 1..Len(pvals) : ranked[i] = k
    /\ \A i, j \in 1..Len(pvals) : pvals[i] < pvals[j] => ranked[i] < ranked[j]

\* p_(j) * m / j of the test at position k
StepUpTerm(k) == <<pvals[k] * DeclaredM, ranked[k] * PDen>>

\* C6: the q-values are non-decreasing in the p-values: p_i <= p_j implies
\* q_i <= q_j, equal p-values included.
C6_Monotone ==
    pc = "done" =>
        \A i, j \in 1..Len(pvals) : pvals[i] <= pvals[j] => FracLeq(q[i], q[j])

\* a call with two equal p-values in which the minimum was propagated downwards
C6_Witness ==
    /\ pc = "done"
    /\ \E i, j \in 1..Len(pvals) : i # j /\ pvals[i] = pvals[j] /\ pvals[i] > 0
    /\ \E k \in 1..Len(pvals) : FracLess(q[k], StepUpTerm(k))

\* C7: at the original position of each p-value bh_fdr returns the minimum over
\* the ranks j >= rank_i of p_(j) * m / j, ranks being ascending positions among
\* the p-values passed and m the declared family size; for m = 5 and
\* p = [0.01, 0.04, 0.03, 0.20, 0.50] it returns [0.05, 1/15, 1/15, 0.25, 0.50].
C7_StepUp ==
    pc = "done" =>
        /\ AscendingRanks
        /\ Len(q) = Len(pvals)
        /\ \A i \in 1..Len(pvals) :
             /\ \E k \in 1..Len(pvals) :
                  ranked[k] >= ranked[i] /\ FracEq(q[i], StepUpTerm(k))
             /\ \A k \in 1..Len(pvals) :
                  ranked[k] >= ranked[i] => FracLeq(q[i], StepUpTerm(k))
        /\ (pvals = TextbookP /\ m = TextbookM) =>
             /\ FracEq(q[1], <<5, 100>>)
             /\ FracEq(q[2], <<1, 15>>)
             /\ FracEq(q[3], <<1, 15>>)
             /\ FracEq(q[4], <<25, 100>>)
             /\ FracEq(q[5], <<50, 100>>)

\* the worked example has been computed
C7_Witness ==
    /\ pc = "done"
    /\ pvals = TextbookP
    /\ m = TextbookM
    /\ Len(q) = 5

Alpha == <<AlphaNum, AlphaDen>>

\* C28: the decisions agree with the q-values: a test is rejected iff its
\* q-value is at most 0.05; hence whenever a test is rejected every test with a
\* smaller or equal p-value is rejected too, and equal p-values receive the
\* same decision.
C28_RejectIffQ ==
    pc = "done" =>
        /\ \A i \in 1..Len(pvals) : rejected[i] <=> FracLeq(q[i], Alpha)
        /\ \A i, j \in 1..Len(pvals) :
             (rejected[j] /\ pvals[i] <= pvals[j]) => rejected[i]
        /\ \A i, j \in 1..Len(pvals) :
             pvals[i] = pvals[j] => (rejected[i] <=> rejected[j])

\* what does hold: a rejected test has a q-value of at most 0.05
C28_RejectedHaveSmallQ ==
    pc = "done" =>
        \A i \in 1..Len(pvals) : rejected[i] => FracLeq(q[i], Alpha)

\* two tests with the same p-value and the same q-value, at most 0.05, one
\* rejected and the other not
C28_EqualPSplit ==
    /\ pc = "done"
    /\ \E i, j \in 1..Len(pvals) :
         /\ pvals[i] = pvals[j]
         /\ FracEq(q[i], q[j])
         /\ FracLeq(q[i], Alpha)
         /\ rejected[j]
         /\ ~rejected[i]

\* a test rejected while a test with a strictly smaller p-value is not
C28_NotDownwardClosed ==
    /\ pc = "done"
    /\ \E i, j \in 1..Len(pvals) :
         /\ pvals[i] < pvals[j]
         /\ rejected[j]
         /\ ~rejected[i]

\* C29: for p-values in [0, 1] and a declared family size m at least the number
\* of p-values passed, every q-value is at least its raw p-value and at most 1.
C29_QWithinUnit ==
    (pc = "done" /\ DeclaredM >= Len(pvals)) =>
        \A i \in 1..Len(pvals) :
            /\ FracLeq(<<pvals[i], PDen>>, q[i])
            /\ FracLeq(q[i], <<1, 1>>)

\* C29 as the code has it: for m at least the number n of p-values passed,
\* every q-value is at least its raw p-value and at most max(p) * m / n, which
\* is at most 1 when m = n.
C29_QBounds ==
    (pc = "done" /\ DeclaredM >= Len(pvals)) =>
        \A i \in 1..Len(pvals) :
            /\ FracLeq(<<pvals[i], PDen>>, q[i])
            /\ \E k \in 1..Len(pvals) :
                 FracLeq(q[i], <<pvals[k] * DeclaredM, Len(pvals) * PDen>>)
            /\ DeclaredM = Len(pvals) => FracLeq(q[i], <<1, 1>>)

\* a family larger than the p-values passed, a q-value above 1 and a q-value
\* strictly above its raw p-value
C29_Witness ==
    /\ pc = "done"
    /\ DeclaredM > Len(pvals)
    /\ \E i \in 1..Len(pvals) : FracLess(<<1, 1>>, q[i])
    /\ \E i \in 1..Len(pvals) : FracLess(<<pvals[i], PDen>>, q[i])

\* m equal to the number of p-values, the minimum propagated downwards
C29_WitnessExact ==
    /\ pc = "done"
    /\ m # <<>>
    /\ DeclaredM = Len(pvals)
    /\ \E k \in 1..Len(pvals) : FracLess(q[k], StepUpTerm(k))

-----------------------------------------------------------------------------
(* icc_2_1 (sa_utils.py)                                                   *)
(* A rating is a cell: a number or NaN.  The value returned is a record:   *)
(* kind "val" with the exact fraction num/den (den > 0), "nan", or "inf"   *)
(* (a non-zero numerator over zero).  Means are kept integral by scaling:  *)
(* a target mean by k = 2, a rater mean by n, the grand mean by 2n.        *)

\* the number of raters k (the two columns of X)
Raters == 2

isfinite(c) == c.k = "num"

IccNaN == [kind |-> "nan", num |-> 0, den |-> 1]

\* the float num/den as numpy divides: 0/0 is nan, x/0 is +-inf
FloatDiv(num, den) ==
    IF den = 0 THEN (IF num = 0 THEN IccNaN ELSE [kind |-> "inf", num |-> num, den |-> 1])
    ELSE IF den < 0 THEN [kind |-> "val", num |-> -num, den |-> -den]
    ELSE [kind |-> "val", num |-> num, den |-> den]

TooFewMutTwo(n) == n < 2

\* if n < 3: return nan
TooFew(n) == n < 3

ResidualMutNoGrand(x, t, c, S, n) == Raters * n * x - n * t - Raters * c

\* X - mean_per_target - mean_per_rater + grand for one entry x of a target with
\* rating sum t and a rater with rating sum c, S the sum of all ratings;
\* scaled by k * n
Residual(x, t, c, S, n) == Raters * n * x - n * t - Raters * c + S

\* the ANOVA of the n complete pairs a[i], b[i] and the coefficient
IccOfPairs(a, b) ==
    LET n == Len(a)
        k == Raters
        A == SeqSum(a)
        B == SeqSum(b)
        S == A + B
        t == [i \in 1..n |-> a[i] + b[i]]
        \* MSR * (n - 1) * (k n)^2
        R == k * SeqSum([i \in 1..n |-> (n * t[i] - S) * (n * t[i] - S)])
        \* MSC * (k - 1) * (k n)^2
        Cc == n * ((k * A - S) * (k * A - S) + (k * B - S) * (k * B - S))
        \* MSE * (k - 1) * (n - 1) * (k n)^2
        E == SeqSum([i \in 1..n |->
                 Residual(a[i], t[i], A, S, n) * Residual(a[i], t[i], A, S, n)
               + Residual(b[i], t[i], B, S, n) * Residual(b[i], t[i], B, S, n)])
    IN  \* (MSR - MSE) / (MSR + (k-1) MSE + k (MSC - MSE) / n), times (kn)^2 (n-1) n
        FloatDiv(n * (R - E),
                 n * (R + (k - 1) * E) + k * ((n - 1) * Cc - E))

\* the whole of icc_2_1: the broadcast of the two masks fails when the lengths
\* differ (ValueError, or IndexError at x[mask] when one length is 1)
icc_2_1(x, y) ==
    IF Len(x) # Len(y)
    THEN [raised |-> IF Len(x) = 1 \/ Len(y) = 1 THEN "IndexError" ELSE "ValueError",
          icc |-> NoIcc]
    ELSE LET mask == [i \in 1..Len(x) |-> isfinite(x[i]) /\ isfinite(y[i])]
             idx == SelectIdx(mask, 1)
             a == [j \in 1..Len(idx) |-> x[idx[j]].v]
             b == [j \in 1..Len(idx) |-> y[idx[j]].v]
         IN  [raised |-> "none",
              icc |-> IF TooFew(Len(idx)) THEN IccNaN ELSE IccOfPairs(a, b)]

\* the ratings of the model
Ratings == {NaN, Num(0), Num(1)}

InitICC ==
    /\ pc = "icc_2_1"
    /\ raised = "none"
    /\ r1 \in SeqsUpTo(Ratings, MaxRatings)
    /\ r2 \in SeqsUpTo(Ratings, MaxRatings)
    /\ icc = NoIcc
    /\ IdleClean
    /\ IdleBH
    /\ IdleAnalysis

\* icc = icc_2_1(r1, r2)
CallIcc ==
    /\ pc = "icc_2_1"
    /\ LET r == icc_2_1(r1, r2)
       IN  /\ icc' = r.icc
           /\ raised' = r.raised
           /\ pc' = IF r.raised = "none" THEN "done" ELSE "raised"
    /\ UNCHANGED <<r1, r2>>
    /\ UNCHANGED cleanVars /\ UNCHANGED bhVars
    /\ UNCHANGED analysisVars

NextICC == CallIcc

SpecICC == InitICC /\ [][NextICC]_vars

-----------------------------------------------------------------------------
(* Claims about icc_2_1, with the coefficient recomputed from the sums of  *)
(* squares of the two-way layout (SSE = SST - SSR - SSC)                   *)

\* the positions at which both ratings exist and are non-missing
ValidPositions ==
    {i \in 1..Len(r1) : i <= Len(r2) /\ r1[i].k = "num" /\ r2[i].k = "num"}

\* the ratings of r at the valid positions, in order
RECURSIVE ValidRatings(_, _)
ValidRatings(r, i) ==
    IF i > Len(r) THEN <<>>
    ELSE (IF i \in ValidPositions THEN <<r[i].v>> ELSE <<>>) \o ValidRatings(r, i + 1)

\* ICC = (MSR - MSE) / (MSR + (k-1) MSE + k (MSC - MSE) / n) with k = 2, as the
\* fraction <<num, den>> (every sum of squares scaled by 2n)
TwoWayFormula(a, b) ==
    LET n == Len(a)
        S == SeqSum(a) + SeqSum(b)
        SST == 2 * n * (SeqSum([i \in 1..n |-> a[i] * a[i]])
                        + SeqSum([i \in 1..n |-> b[i] * b[i]])) - S * S
        SSR == n * SeqSum([i \in 1..n |-> (a[i] + b[i]) * (a[i] + b[i])]) - S * S
        SSC == 2 * (SeqSum(a) * SeqSum(a) + SeqSum(b) * SeqSum(b)) - S * S
        SSE == SST - SSR - SSC
    IN  <<n * (SSR - SSE), n * (SSR + SSE) + 2 * ((n - 1) * SSC - SSE)>>

\* the value returned is the fraction f (undefined, NaN, when f is 0/0)
ReturnsFraction(f) ==
    IF f[2] = 0
    THEN icc.kind = (IF f[1] = 0 THEN "nan" ELSE "inf")
    ELSE icc.kind = "val" /\ icc.num * f[2] = f[1] * icc.den

\* the non-missing entries of r1 are all one value
AllSame == \A i, j \in 1..Len(r1) : (r1[i].k = "num" /\ r1[j].k = "num") => r1[i].v = r1[j].v

AtLeast3 == Cardinality({i \in 1..Len(r1) : r1[i].k = "num"}) >= 3

\* C9 as stated: for every x with at least 3 non-missing entries,
\* icc_2_1(x, x) = 1.0, vectors of one repeated value included.
C9_IdenticalIsOne ==
    (pc \in {"done", "raised"} /\ r1 = r2 /\ AtLeast3) =>
        (pc = "done" /\ icc.kind = "val" /\ icc.num = icc.den)

\* C9 amended: icc_2_1(x, x) = 1.0 for every x with at least 3 non-missing
\* entries that are not all equal; when they are all equal the value is NaN.
C9_IdenticalIsOneUnlessConstant ==
    (pc \in {"done", "raised"} /\ r1 = r2 /\ AtLeast3) =>
        /\ pc = "done"
        /\ ~AllSame => (icc.kind = "val" /\ icc.num = icc.den)
        /\ AllSame => icc.kind = "nan"

\* identical vectors with a missing entry and three ratings, not all equal
C9_Witness ==
    /\ pc = "done"
    /\ r1 = r2
    /\ AtLeast3
    /\ ~AllSame
    /\ \E i \in 1..Len(r1) : r1[i].k = "nan"
    /\ icc.kind = "val" /\ icc.num = icc.den

\* C10 as stated: only the positions with both ratings non-missing count; with
\* fewer than 3 of them the value is NaN whatever the lengths of the inputs,
\* with 3 or more it is the two-way formula over exactly those positions.
C10_ValidPairs ==
    pc \in {"done", "raised"} =>
        /\ pc = "done"
        /\ Cardinality(ValidPositions) < 3 => icc.kind = "nan"
        /\ Cardinality(ValidPositions) >= 3 =>
             ReturnsFraction(TwoWayFormula(ValidRatings(r1, 1), ValidRatings(r2, 1)))

\* C10 amended: the same for two inputs of one length, whatever that length.
C10_ValidPairsEqualLength ==
    (pc \in {"done", "raised"} /\ Len(r1) = Len(r2)) =>
        /\ pc = "done"
        /\ Cardinality(ValidPositions) < 3 => icc.kind = "nan"
        /\ Cardinality(ValidPositions) >= 3 =>
             ReturnsFraction(TwoWayFormula(ValidRatings(r1, 1), ValidRatings(r2, 1)))

\* inputs of length 4 with a rating missing on one side only: three valid pairs
\* and a defined coefficient other than 1
C10_Witness ==
    /\ pc = "done"
    /\ Len(r1) = 4 /\ Len(r2) = 4
    /\ Cardinality(ValidPositions) = 3
    /\ \E i \in 1..4 : r1[i].k = "num" /\ r2[i].k = "nan"
    /\ icc.kind = "val" /\ icc.num # icc.den /\ icc.num # 0

\* inputs of length 4 with only two valid pairs: NaN
C10_WitnessTooFew ==
    /\ pc = "done"
    /\ Len(r1) = 4 /\ Len(r2) = 4
    /\ Cardinality(ValidPositions) = 2
    /\ icc.kind = "nan"

-----------------------------------------------------------------------------
(* Panel construction: extract_block_long (sa_utils.py) applied to every   *)
(* block of blocks.yaml by build_long_from_residuals (06_A2)               *)

\* most participants in a wide table
MaxWide == 2

\* the blocks and the pairs of the model's blocks.yaml, in file order
BlockOrder == <<"QH1", "QH2">>
PairOrder == <<"CareFairness", "AuthorityCare">>
\* the item columns a wide table may hold and a mapping may name
WideColumns == {"QH1-1", "QH2-1"}
\* the cells of an item column: missing, unparseable, a number
WideCells == {NaN, Text, Num(7)}

\* the mappings of one block, from pair i on: a pair is left out or mapped
RECURSIVE Mappings(_)
Mappings(i) ==
    IF i > Len(PairOrder) THEN {<<>>}
    ELSE LET rest == Mappings(i + 1)
         IN  rest \cup
             {<<[pair |-> PairOrder[i], col |-> c]>> \o r :
                 c \in WideColumns, r \in rest}

\* load_blocks_config: the blocks of the file, each with its mapping
BlockMaps ==
    UNION {{[i \in 1..k |-> [block |-> BlockOrder[i], mapping |-> ms[i]]] :
               ms \in [1..k -> Mappings(1)]} : k \in 0..Len(BlockOrder)}

\* identifiers of the participants of a wide table of n rows: the last one
\* may be missing (read back from a csv as NaN)
WideIds(n) ==
    { [i \in 1..n |-> RowIds[i]],
      [i \in 1..n |-> IF i = n THEN NaNId ELSE RowIds[i]] }

\* the wide tables of n participants
WideTables(n) ==
    UNION {{[columns |-> cols,
             rows |-> [i \in 1..n |->
                         [ResponseId |-> ids[i], cells |-> cells[i]]]] :
               cells \in [1..n -> [cols -> WideCells]], ids \in WideIds(n)} :
           cols \in SUBSET WideColumns}

\* the sub-frame of one mapped column: a row per participant, none left out
ItemRowsMutDropna(t, block, pair, col) ==
    SelectSeq([i \in 1..Len(t.rows) |->
                 [ResponseId |-> astype_str(t.rows[i].ResponseId), pair |-> pair,
                  PhaseII |-> to_numeric(t.rows[i].cells[col]), block |-> block]],
              LAMBDA r : notna(r.PhaseII))
ItemRows(t, block, pair, col) ==
    [i \in 1..Len(t.rows) |->
        [ResponseId |-> astype_str(t.rows[i].ResponseId), pair |-> pair,
         PhaseII |-> to_numeric(t.rows[i].cells[col]), block |-> block]]

\* the loop over mapping.items(), from entry i on, and the final concat
RECURSIVE ConcatItems(_, _, _, _)
ConcatItems(t, block, mp, i) ==
    IF i > Len(mp) THEN <<>>
    ELSE (IF mp[i].col \in t.columns
          THEN ItemRows(t, block, mp[i].pair, mp[i].col)
          ELSE <<>>) \o ConcatItems(t, block, mp, i + 1)

extract_block_long(t, block, mp) == ConcatItems(t, block, mp, 1)

\* the loop over block_maps.items(), from block i on
RECURSIVE ConcatBlocks(_, _, _)
ConcatBlocks(t, bm, i) ==
    IF i > Len(bm) THEN <<>>
    ELSE extract_block_long(t, bm[i].block, bm[i].mapping)
         \o ConcatBlocks(t, bm, i + 1)

\* pd.concat of an empty list raises ValueError
build_long_from_residuals(t, bm) ==
    IF bm = <<>>
    THEN [raised |-> "ValueError", long |-> <<>>]
    ELSE [raised |-> "none", long |-> ConcatBlocks(t, bm, 1)]

InitLong ==
    /\ pc = "build_long"
    /\ raised = "none"
    /\ \E n \in 0..MaxWide : df_wide \in WideTables(n)
    /\ maps \in BlockMaps
    /\ panel_long = <<>>
    /\ IdleHelpers
    /\ IdleFit /\ IdleCtx /\ IdleResid /\ IdleGmm /\ IdleSig /\ IdleEcho
    /\ IdleLate

\* long_all = build_long_from_residuals(df_res, blocks_yaml)
CallBuildLong ==
    /\ pc = "build_long"
    /\ LET r == build_long_from_residuals(df_wide, maps)
       IN  /\ panel_long' = r.long
           /\ raised' = r.raised
           /\ pc' = IF r.raised = "none" THEN "done" ELSE "raised"
    /\ UNCHANGED <<df_wide, maps>>
    /\ UNCHANGED helperVars
    /\ UNCHANGED <<fitVars, ctxVars, residVars, gmmVars, sigVars, echoVars>>
    /\ UNCHANGED lateVars

NextLong == CallBuildLong

SpecLong == InitLong /\ [][NextLong]_vars

-----------------------------------------------------------------------------
(* Claims about the long panel *)

\* the (block, pair, column) entries of the block -> {pair -> column} mapping
MappedItems ==
    UNION {{[block |-> maps[b].block, pair |-> maps[b].mapping[j].pair,
             col |-> maps[b].mapping[j].col] : j \in 1..Len(maps[b].mapping)} :
           b \in 1..Len(maps)}

\* the rows of the long panel of one (participant, pair, block)
LongRowsOf(id, pair, block) ==
    {k \in 1..Len(panel_long) :
        /\ panel_long[k].ResponseId = id
        /\ panel_long[k].pair = pair
        /\ panel_long[k].block = block}

\* C11: the long panel has exactly one row for each (participant, pair,
\* block) whose mapped column exists in the wide table, whatever the value
\* (missing and unparseable values give a row with a missing PhaseII), and no
\* other row; with every mapped column present it has N * (pairs x blocks)
\* rows for N participants.
C11_OneRowPerItem ==
    pc = "done" =>
        /\ \A i \in 1..Len(df_wide.rows) : \A e \in MappedItems :
             Cardinality(LongRowsOf(astype_str(df_wide.rows[i].ResponseId),
                                    e.pair, e.block))
               = IF e.col \in df_wide.columns THEN 1 ELSE 0
        /\ \A k \in 1..Len(panel_long) :
             \E i \in 1..Len(df_wide.rows) : \E e \in MappedItems :
                /\ e.col \in df_wide.columns
                /\ panel_long[k] =
                     [ResponseId |-> astype_str(df_wide.rows[i].ResponseId),
                      pair |-> e.pair,
                      PhaseII |-> IF df_wide.rows[i].cells[e.col].k = "num"
                                  THEN df_wide.rows[i].cells[e.col] ELSE NaN,
                      block |-> e.block]
        /\ (\A e \in MappedItems : e.col \in df_wide.columns) =>
             Len(panel_long) = Len(df_wide.rows) * Cardinality(MappedItems)

\* every pair of every block is mapped to an existing column, one participant
\* has an unparseable value and one a missing value: N * 2 * 2 rows
C11_Witness ==
    /\ pc = "done"
    /\ Len(df_wide.rows) = MaxWide
    /\ Cardinality(MappedItems) = Len(PairOrder) * Len(BlockOrder)
    /\ \A e \in MappedItems : e.col \in df_wide.columns
    /\ \E i, j \in 1..Len(df_wide.rows) : \E c \in df_wide.columns :
         df_wide.rows[i].cells[c] = Text /\ df_wide.rows[j].cells[c] = NaN
    /\ Len(panel_long) = MaxWide * Len(PairOrder) * Len(BlockOrder)

\* a pair mapped to a column the wide table does not have gives no row
C11_WitnessAbsent ==
    /\ pc = "done"
    /\ Len(df_wide.rows) > 0
    /\ \E e \in MappedItems : e.col \notin df_wide.columns
    /\ \E e \in MappedItems : e.col \in df_wide.columns
    /\ Len(panel_long) = Len(df_wide.rows)

-----------------------------------------------------------------------------
(* Model fitting on the long panel: fit_ols_clustered, lobo, lopo          *)
(* (sa_utils.py), fit_context_model (09_A5), fit_block (13_B3) and         *)
(* slope_per_person (12_B2).  A fit is kept abstract: the model records    *)
(* the rows the estimator is given and whether coefficients come out.      *)

\* most rows of a long panel
MaxPanel == 3

\* the levels of the panel of the model, in sorted() order
SortedBlocks == <<"QH1", "QH2">>
SortedPairs == <<"AuthorityCare", "CareFairness">>
\* the blocks main of 13_B3 asks fit_block for (the model's panel has no QH3)
FitBlocks == {"QH1", "QH2", "QH3"}
\* the levels a block must have to get a dummy in fit_context_model
ContextOrder == <<"QH1", "QH2", "QH3", "QH5", "QH6">>

\* a row of the panel: identifier, pair and block are never missing (panel
\* construction sets them); PhaseI or PhaseII may be
PanelValues ==
    { [PhaseI |-> Num(1), PhaseII |-> Num(2)],
      [PhaseI |-> NaN, PhaseII |-> Num(2)],
      [PhaseI |-> Num(1), PhaseII |-> NaN] }

\* the rows of the panel of the model but for the identifier, which
\* alternates between two participants
PanelRows ==
    { [pair |-> SortedPairs[p], block |-> SortedBlocks[b],
       PhaseI |-> v.PhaseI, PhaseII |-> v.PhaseII] :
         p \in 1..Len(SortedPairs), b \in 1..Len(SortedBlocks), v \in PanelValues }

\* the panels of n rows
Panels(n) ==
    {[i \in 1..n |->
        [ResponseId |-> RowIds[((i - 1) % 2) + 1], pair |-> s[i].pair,
         block |-> s[i].block, PhaseI |-> s[i].PhaseI, PhaseII |-> s[i].PhaseII]] :
       s \in [1..n -> PanelRows]}

\* DataFrame.dropna over the given columns: is the row kept
RowNotna(r, cols) == \A c \in cols \cap {"PhaseI", "PhaseII"} : notna(r[c])

\* the positions of the rows of p, ascending
AllPositions(p) == [i \in 1..Len(p) |-> i]

\* the positions of the rows of p with PhaseI and PhaseII present
CompletePositions(p) ==
    SelectIdx([i \in 1..Len(p) |-> notna(p[i].PhaseI) /\ notna(p[i].PhaseII)], 1)

\* sm.OLS(y, X).fit on the rows at positions s.  No row: the estimator
\* raises.  statsmodels does not remove missing values (missing="none"): a
\* missing regressor raises MissingDataError, a missing outcome gives NaN
\* coefficients or makes the covariance step raise.
OlsOutcomes(p, s) ==
    IF s = <<>> THEN {"raises"}
    ELSE IF \E k \in 1..Len(s) : ~notna(p[s[k]].PhaseI) THEN {"raises"}
    ELSE IF \E k \in 1..Len(s) : ~notna(p[s[k]].PhaseII) THEN {"nan", "raises"}
    ELSE {"fit"}

\* the columns fit_ols_clustered selects before dropna
WorkColumns(y, x, group_col, add_pair_fe, pair_col, add_block_fe, block_col) ==
    {y, x, group_col}
      \cup (IF add_pair_fe /\ pair_col # <<>> THEN {pair_col[1]} ELSE {})
      \cup (IF add_block_fe /\ block_col # <<>> THEN {block_col[1]} ELSE {})

\* work = df[[...]].dropna(): the sample of fit_ols_clustered, df being the
\* rows of the panel at positions s
OlsSample(p, s, cols) == SelectSeq(s, LAMBDA i : RowNotna(p[i], cols))

\* df[df[col] != b]
LeaveOutMutKeep(p, col, b) ==
    SelectIdx([i \in 1..Len(p) |-> p[i][col] = b], 1)
LeaveOut(p, col, b) ==
    SelectIdx([i \in 1..Len(p) |-> p[i][col] # b], 1)

\* sorted(df[col].dropna().unique())
Levels(p, order, col) ==
    SelectSeq(order, LAMBDA l : \E i \in 1..Len(p) : p[i][col] = l)

\* the arguments lobo and lopo pass to fit_ols_clustered
LooCall(pair_col, block_col) ==
    [name |-> "fit_ols_clustered", y |-> "PhaseII", x |-> "PhaseI",
     group_col |-> "ResponseId", add_const |-> TRUE,
     add_pair_fe |-> TRUE, pair_col |-> <<pair_col>>,
     add_block_fe |-> TRUE, block_col |-> <<block_col>>]

\* the rows lobo (col = block_col) and lopo (col = pair_col) build, one per
\* level; the refits have complete samples, so each gives "fit" or raises
LeaveOneOut(p, order, col, pair_col, block_col) ==
    LET lv == Levels(p, order, col)
        c == LooCall(pair_col, block_col)
    IN  [j \in 1..Len(lv) |->
            LET s == OlsSample(p, LeaveOut(p, col, lv[j]),
                               WorkColumns(c.y, c.x, c.group_col, c.add_pair_fe,
                                           c.pair_col, c.add_block_fe, c.block_col))
            IN  [omitted |-> lv[j], call |-> c, sample |-> s,
                 fit |-> IF s = <<>> THEN "raises" ELSE "fit"]]

\* sub = df[df["block"] == block] of fit_block; nothing is dropped after it
BlockRows(p, block) ==
    SelectIdx([i \in 1..Len(p) |-> p[i].block = block], 1)

\* mask = ~np.isnan(x) & ~np.isnan(y) of slope_per_person
SlopeMask(p) == CompletePositions(p)

\* fewest valid points slope_per_person fits a line to
MinSlopePoints == 3

InitFit ==
    /\ pc = "fit"
    /\ raised = "none"
    /\ \E n \in 0..MaxPanel : panel \in Panels(n)
    /\ routine = NoCall
    /\ work = <<>>
    /\ fit = "none"
    /\ loo = <<>>
    /\ IdleHelpers
    /\ IdleLong /\ IdleCtx /\ IdleResid /\ IdleGmm /\ IdleSig /\ IdleEcho
    /\ IdleLate

\* what every call of a fitting routine leaves alone
FitFrame ==
    /\ UNCHANGED panel
    /\ UNCHANGED helperVars
    /\ UNCHANGED <<longVars, ctxVars, residVars, gmmVars, sigVars, echoVars>>
    /\ UNCHANGED lateVars

\* the end of a call whose estimator gave the outcome o
FitReturns(o) ==
    /\ fit' = o
    /\ raised' = IF o = "raises" THEN "FitError" ELSE "none"
    /\ pc' = IF o = "raises" THEN "raised" ELSE "done"

\* res, X = fit_ols_clustered(panel, "PhaseII", "PhaseI", "ResponseId", ...)
CallFitOlsClustered ==
    /\ pc = "fit"
    /\ \E add_pair_fe, add_block_fe \in BOOLEAN :
         LET s == OlsSample(panel, AllPositions(panel),
                            WorkColumns("PhaseII", "PhaseI", "ResponseId",
                                        add_pair_fe, <<"pair">>,
                                        add_block_fe, <<"block">>))
         IN  /\ routine' = [name |-> "fit_ols_clustered",
                            add_pair_fe |-> add_pair_fe,
                            add_block_fe |-> add_block_fe]
             /\ work' = s
             /\ \E o \in OlsOutcomes(panel, s) : FitReturns(o)
    /\ loo' = <<>>
    /\ FitFrame

\* mod, work = fit_context_model(panel)
CallFitContextModel ==
    /\ pc = "fit"
    /\ LET s == OlsSample(panel, AllPositions(panel),
                          {"ResponseId", "PhaseII", "PhaseI", "pair", "block"})
       IN  /\ routine' = [name |-> "fit_context_model"]
           /\ work' = s
           /\ \E o \in OlsOutcomes(panel, s) : FitReturns(o)
    /\ loo' = <<>>
    /\ FitFrame

\* fit_block(panel, block) of the cluster-moderation stage
CallFitBlock ==
    /\ pc = "fit"
    /\ \E block \in FitBlocks :
         LET sub == BlockRows(panel, block)
         IN  /\ routine' = [name |-> "fit_block", block |-> block]
             /\ IF sub = <<>>
                THEN /\ work' = <<>>
                     /\ fit' = "none"
                     /\ raised' = "RuntimeError"
                     /\ pc' = "raised"
                ELSE /\ work' = sub
                     /\ \E o \in OlsOutcomes(panel, sub) : FitReturns(o)
    /\ loo' = <<>>
    /\ FitFrame

\* slope_per_person(panel)
CallSlopePerPerson ==
    /\ pc = "fit"
    /\ LET s == SlopeMask(panel)
       IN  /\ routine' = [name |-> "slope_per_person"]
           /\ IF Len(s) < MinSlopePoints
              THEN work' = <<>> /\ fit' = "nan"
              ELSE work' = s /\ fit' = "fit"
    /\ raised' = "none"
    /\ pc' = "done"
    /\ loo' = <<>>
    /\ FitFrame

\* the end of lobo and lopo: the first refit that raises ends the loop
LooReturns(rows) ==
    LET bad == {j \in 1..Len(rows) : rows[j].fit = "raises"}
    IN  IF bad = {}
        THEN loo' = rows /\ raised' = "none" /\ pc' = "done"
        ELSE /\ loo' = SubSeq(rows, 1, (CHOOSE j \in bad : \A k \in bad : j <= k) - 1)
             /\ raised' = "FitError"
             /\ pc' = "raised"

\* lobo(panel, block_col="block")
CallLobo ==
    /\ pc = "fit"
    /\ routine' = [name |-> "lobo"]
    /\ LooReturns(LeaveOneOut(panel, SortedBlocks, "block", "pair", "block"))
    /\ work' = <<>>
    /\ fit' = "none"
    /\ FitFrame

\* lopo(panel, pair_col="pair")
CallLopo ==
    /\ pc = "fit"
    /\ routine' = [name |-> "lopo"]
    /\ LooReturns(LeaveOneOut(panel, SortedPairs, "pair", "pair", "block"))
    /\ work' = <<>>
    /\ fit' = "none"
    /\ FitFrame

NextFit ==
    \/ CallFitOlsClustered
    \/ CallFitContextModel
    \/ CallFitBlock
    \/ CallSlopePerPerson
    \/ CallLobo
    \/ CallLopo

SpecFit == InitFit /\ [][NextFit]_vars

-----------------------------------------------------------------------------
(* Claims about the fitted samples *)

RowComplete(r) == notna(r.PhaseI) /\ notna(r.PhaseII)

\* the routines that fit one model to the rows they are given
FittingRoutines ==
    {"fit_ols_clustered", "fit_context_model", "fit_block", "slope_per_person"}

\* C12: a fitting routine leaves out of its fitted sample every row whose
\* PhaseI or PhaseII is missing, and such rows do not make the fit fail or
\* give undefined coefficients.
C12_MissingRowsExcluded ==
    routine.name \in FittingRoutines =>
        /\ \A k \in 1..Len(work) : RowComplete(panel[work[k]])
        /\ (\E i \in 1..Len(panel) : ~RowComplete(panel[i])) /\ Len(work) > 0
             => fit = "fit"

\* the routines that drop incomplete rows fit on the complete rows
C12_DroppingRoutinesFit ==
    /\ pc = "done"
    /\ routine.name \in {"fit_ols_clustered", "fit_context_model"}
    /\ \E i \in 1..Len(panel) : ~RowComplete(panel[i])
    /\ Len(work) > 0
    /\ fit = "fit"

\* the column lobo / lopo leaves a level of out, and its levels in the panel
LooColumn == IF routine.name = "lobo" THEN "block" ELSE "pair"
LevelsPresent == {panel[i][LooColumn] : i \in 1..Len(panel)}
SampleOf(j) == {loo[j].sample[k] : k \in 1..Len(loo[j].sample)}

\* one result row per level present, labelled by the level left out, each
\* from fit_ols_clustered with pair and block fixed effects, clustered by
\* participant
OneRowPerLevel ==
    /\ {loo[j].omitted : j \in 1..Len(loo)} = LevelsPresent
    /\ Len(loo) = Cardinality(LevelsPresent)
    /\ \A j \in 1..Len(loo) :
         /\ loo[j].call.name = "fit_ols_clustered"
         /\ loo[j].call.add_pair_fe /\ loo[j].call.pair_col = <<"pair">>
         /\ loo[j].call.add_block_fe /\ loo[j].call.block_col = <<"block">>
         /\ loo[j].call.group_col = "ResponseId"

\* C15 (as stated): lobo / lopo return one row per block / pair present,
\* labelled by the omitted one, and the sample fitted for a row holds every
\* panel row of the other blocks / pairs and no row of the omitted one.
C15_LeaveOneOut ==
    pc = "done" /\ routine.name \in {"lobo", "lopo"} =>
        /\ OneRowPerLevel
        /\ \A j \in 1..Len(loo) :
             SampleOf(j) = {i \in 1..Len(panel) : panel[i][LooColumn] # loo[j].omitted}

\* C15 (amended): the sample fitted for a row holds every panel row of the
\* other blocks / pairs whose PhaseI and PhaseII are both present, and no
\* other row.
C15_LeaveOneOutComplete ==
    pc = "done" /\ routine.name \in {"lobo", "lopo"} =>
        /\ OneRowPerLevel
        /\ \A j \in 1..Len(loo) :
             SampleOf(j) = {i \in 1..Len(panel) :
                              /\ panel[i][LooColumn] # loo[j].omitted
                              /\ RowComplete(panel[i])}

\* lobo on a panel of two blocks, one row of which has a missing value
C15_Witness ==
    /\ pc = "done"
    /\ routine.name = "lobo"
    /\ Len(loo) = 2
    /\ Len(panel) = MaxPanel
    /\ \E i \in 1..Len(panel) : ~RowComplete(panel[i])
    /\ \A j \in 1..Len(loo) : loo[j].sample # <<>>

\* lopo on a panel of two pairs
C15_WitnessLopo ==
    /\ pc = "done"
    /\ routine.name = "lopo"
    /\ Len(loo) = 2
    /\ loo[1].omitted = "AuthorityCare"
    /\ \E i \in SampleOf(1) : panel[i].pair = "CareFairness"

-----------------------------------------------------------------------------
(* Response-style correction: residualise_phase2_on_pc1 (06_A2).  The      *)
(* least-squares solution and the residuals are exact fractions num/den.   *)

\* most participants in the table to residualise
MaxPart == 4
\* fewest observed values of an item that is fitted
MinObserved == 3

\* the item columns of the model (phase2_cols), the values they hold and
\* the PC1 scores (one per participant, never missing)
ItemColumns == <<"QH1-1", "QH2-1">>
ItemCells == {NaN, Num(0), Num(3)}
\* the second item of the model is answered with 1 by the first k participants
SecondItem(n, k) == [i \in 1..n |-> IF i <= k THEN Num(1) ELSE NaN]
PC1Values == {-1, 2}

\* mask = ~np.isnan(y): the positions observed, ascending
ObservedPos(y) == SelectIdx([i \in 1..Len(y) |-> notna(y[i])], 1)

TooFewObservedMutTwo(n) == n < MinObserved - 1
TooFewObserved(n) == n < MinObserved

\* np.linalg.lstsq(X[mask, :], y[mask]) for X = [1, x]: the coefficients
\* (a, b) = (a_num, b_num) / den of the intercept and of x.  Full rank: the
\* solution of the normal equations.  x constant over the observed rows
\* (rank 1): the minimum-norm solution, which fits the mean of y.
LstsqMutNoIntercept(x, y, o) ==
    LET Sxx == SeqSum([k \in 1..Len(o) |-> x[o[k]] * x[o[k]]])
        Sxy == SeqSum([k \in 1..Len(o) |-> x[o[k]] * y[o[k]].v])
    IN  IF Sxx # 0
        THEN [a_num |-> 0, b_num |-> Sxy, den |-> Sxx]
        ELSE [a_num |-> 0, b_num |-> 0, den |-> 1]
Lstsq(x, y, o) ==
    LET n == Len(o)
        Sx == SeqSum([k \in 1..n |-> x[o[k]]])
        Sy == SeqSum([k \in 1..n |-> y[o[k]].v])
        Sxx == SeqSum([k \in 1..n |-> x[o[k]] * x[o[k]]])
        Sxy == SeqSum([k \in 1..n |-> x[o[k]] * y[o[k]].v])
        D == n * Sxx - Sx * Sx
        c == x[o[1]]
    IN  IF D # 0
        THEN [a_num |-> Sy * Sxx - Sx * Sxy, b_num |-> n * Sxy - Sx * Sy, den |-> D]
        ELSE [a_num |-> Sy, b_num |-> c * Sy, den |-> n * (1 + c * c)]

\* resid = y - X @ coef: missing where y is missing
Residuals(x, y, coef) ==
    [i \in 1..Len(y) |->
        IF notna(y[i])
        THEN [k |-> "num",
              num |-> y[i].v * coef.den - coef.a_num - coef.b_num * x[i],
              den |-> coef.den]
        ELSE NaN]

\* the body of the loop for one column
ResidualiseColumn(x, y) ==
    LET o == ObservedPos(y)
    IN  IF TooFewObserved(Len(o))
        THEN [i \in 1..Len(y) |-> NaN]
        ELSE Residuals(x, y, Lstsq(x, y, o))

residualise_phase2_on_pc1(cols, x) ==
    [c \in 1..Len(cols) |-> ResidualiseColumn(x, cols[c])]

InitResid ==
    /\ pc = "residualise"
    /\ raised = "none"
    /\ \E n \in 0..MaxPart :
         /\ pc1 \in [1..n -> PC1Values]
         /\ \E first \in [1..n -> ItemCells] : \E k \in 0..n :
              items = <<first, SecondItem(n, k)>>
    /\ df_res = <<>>
    /\ IdleHelpers
    /\ IdleLong /\ IdleFit /\ IdleCtx /\ IdleGmm /\ IdleSig /\ IdleEcho
    /\ IdleLate

\* df_res = residualise_phase2_on_pc1(df_wide, phase2_cols, pc1)
CallResidualise ==
    /\ pc = "residualise"
    /\ df_res' = residualise_phase2_on_pc1(items, pc1)
    /\ pc' = "done"
    /\ UNCHANGED <<raised, pc1, items>>
    /\ UNCHANGED helperVars
    /\ UNCHANGED <<longVars, fitVars, ctxVars, gmmVars, sigVars, echoVars>>
    /\ UNCHANGED lateVars

NextResid == CallResidualise

SpecResid == InitResid /\ [][NextResid]_vars

-----------------------------------------------------------------------------
(* Claims about the residuals *)

\* the participants with a value for item c
ObservedSet(c) == {i \in 1..Len(items[c]) : items[c][i].k = "num"}

\* C13: an item with fewer than 3 non-missing values is not fitted and its
\* output column is missing for every participant; an item with 3 or more is
\* fitted and a participant's residual is missing exactly when the raw value
\* is missing.
C13_MissingResiduals ==
    pc = "done" =>
        \A c \in 1..Len(items) :
            IF Cardinality(ObservedSet(c)) < 3
            THEN \A i \in 1..Len(pc1) : df_res[c][i].k = "nan"
            ELSE \A i \in 1..Len(pc1) :
                    (df_res[c][i].k = "nan") <=> (items[c][i].k = "nan")

\* one item with 3 observed values and a missing one, the other with 2
C13_Witness ==
    /\ pc = "done"
    /\ Len(pc1) = 4
    /\ Cardinality(ObservedSet(1)) = 3
    /\ Cardinality(ObservedSet(2)) = 2
    /\ \E i \in ObservedSet(1) : df_res[1][i].k = "num" /\ df_res[1][i].num # 0
    /\ \E i \in 1..4 : i \notin ObservedSet(1) /\ df_res[1][i].k = "nan"
    /\ \A i \in 1..4 : df_res[2][i].k = "nan"

\* the sum of f over a set of participants
RECURSIVE SumOver(_, _)
SumOver(S, f) ==
    IF S = {} THEN 0
    ELSE LET i == CHOOSE j \in S : TRUE
         IN  f[i] + SumOver(S \ {i}, f)

\* the residual of participant i for item c by the textbook formula on the
\* observed participants only: (y - mean y) - b (x - mean x), with
\* b = Sxy / Sxx of the deviations (b = 0 when x does not vary), as a
\* fraction <<num, den>> computed from pc1 and item c alone
TextbookResidual(c, i) ==
    LET O == ObservedSet(c)
        n == Cardinality(O)
        Sx == SumOver(O, [j \in O |-> pc1[j]])
        Sy == SumOver(O, [j \in O |-> items[c][j].v])
        dx(j) == n * pc1[j] - Sx
        dy(j) == n * items[c][j].v - Sy
        Sxx == SumOver(O, [j \in O |-> dx(j) * dx(j)])
        Sxy == SumOver(O, [j \in O |-> dx(j) * dy(j)])
    IN  IF Sxx = 0 THEN <<dy(i), n>>
        ELSE <<dy(i) * Sxx - Sxy * dx(i), n * Sxx>>

\* C14: for every fitted item, over the participants with a value for it the
\* residuals sum to zero and their cross-product with PC1 is zero, and they
\* are the residuals of the least-squares line through those participants'
\* points alone (no other participant and no other item enters).
C14_Orthogonal ==
    pc = "done" =>
        \A c \in 1..Len(items) :
            Cardinality(ObservedSet(c)) >= 3 =>
                /\ SumOver(ObservedSet(c),
                           [i \in ObservedSet(c) |-> df_res[c][i].num]) = 0
                /\ SumOver(ObservedSet(c),
                           [i \in ObservedSet(c) |-> df_res[c][i].num * pc1[i]]) = 0
                /\ \A i \in ObservedSet(c) :
                     /\ df_res[c][i].den > 0
                     /\ df_res[c][i].num * TextbookResidual(c, i)[2]
                          = TextbookResidual(c, i)[1] * df_res[c][i].den

\* a fitted item with a missing participant, PC1 varying over the observed
\* ones, a non-zero residual, and a second item with other values
C14_Witness ==
    /\ pc = "done"
    /\ Len(pc1) = 4
    /\ Cardinality(ObservedSet(1)) = 3
    /\ \E i, j \in ObservedSet(1) : pc1[i] # pc1[j]
    /\ \E i \in ObservedSet(1) : df_res[1][i].num # 0
    /\ Cardinality(ObservedSet(2)) >= 3

\* PC1 constant over the observed participants: the residuals are the
\* deviations from the item's mean
C14_WitnessConstantPC1 ==
    /\ pc = "done"
    /\ Cardinality(ObservedSet(1)) >= 3
    /\ \A i, j \in ObservedSet(1) : pc1[i] = pc1[j]
    /\ \E i \in ObservedSet(1) : df_res[1][i].num # 0

-----------------------------------------------------------------------------
(* Context interaction: main of 09_A5_context_interaction.py, stepped by   *)
(* pc.  A coefficient name is a tuple: <<"PhaseI">>, <<"block", b>> for    *)
(* "block_b", <<"block", b, ":PhaseI">> for "block_b:PhaseI",              *)
(* <<"pair", p>> for "pair_p" (the constant is left out: main never reads  *)
(* it).                                                                    *)

\* pd.get_dummies(col, drop_first=True) of a plain column: a dummy for every
\* level present but the first
DummyLevels(levels) == {levels[j] : j \in 2..Len(levels)}

\* pd.get_dummies of pd.Categorical(block, categories=order): a dummy for
\* every category but the first, whether or not a row has it
CategoricalDummies(order) == {order[j] : j \in 2..Len(order)}

\* the columns of the design matrix of fit_context_model on the rows at
\* positions s, which are the names of the coefficients of the fitted model
ContextDesign(p, s) ==
    LET rows == [k \in 1..Len(s) |-> p[s[k]]]
        fe_block == CategoricalDummies(ContextOrder)
        fe_pair == DummyLevels(Levels(rows, SortedPairs, "pair"))
    IN  {<<"PhaseI">>}
          \cup {<<"block", b>> : b \in fe_block}
          \cup {<<"block", b, ":PhaseI">> : b \in fe_block}
          \cup {<<"pair", pr>> : pr \in fe_pair}

\* inter_terms of main: block -> the interaction term expected for it
InterBlocks == {"QH2", "QH3", "QH5", "QH6"}
inter_terms == [b \in InterBlocks |-> <<"block", b, ":PhaseI">>]

OutLatex == "tables/a5_context_interaction.tex"

InitCtx ==
    /\ pc = "fit_context_model"
    /\ raised = "none"
    /\ \E n \in 0..MaxPanel : panel \in Panels(n)
    /\ routine = NoCall
    /\ work = <<>>
    /\ fit = "none"
    /\ loo = <<>>
    /\ params = {}
    /\ slopes = {}
    /\ report = {}
    /\ IdleHelpers
    /\ IdleLong /\ IdleResid /\ IdleGmm /\ IdleSig /\ IdleEcho
    /\ IdleLate

CtxFrame ==
    /\ UNCHANGED <<panel, loo>>
    /\ UNCHANGED helperVars
    /\ UNCHANGED <<longVars, residVars, gmmVars, sigVars, echoVars>>
    /\ UNCHANGED lateVars

\* mod, work = fit_context_model(df)
MainFitContext ==
    /\ pc = "fit_context_model"
    /\ LET s == OlsSample(panel, AllPositions(panel),
                          {"ResponseId", "PhaseII", "PhaseI", "pair", "block"})
       IN  /\ routine' = [name |-> "fit_context_model"]
           /\ work' = s
           /\ \E o \in OlsOutcomes(panel, s) :
                /\ fit' = o
                /\ params' = IF o = "raises" THEN {} ELSE ContextDesign(panel, s)
                /\ raised' = IF o = "raises" THEN "FitError" ELSE "none"
                /\ pc' = IF o = "raises" THEN "raised" ELSE "validate"
    /\ UNCHANGED <<slopes, report>>
    /\ CtxFrame

\* for v in inter_terms.values(): if v not in mod.params.index: raise
MainValidate ==
    /\ pc = "validate"
    /\ IF \E b \in InterBlocks : inter_terms[b] \notin params
       THEN raised' = "RuntimeError" /\ pc' = "raised"
       ELSE raised' = "none" /\ pc' = "simple_slope"
    /\ UNCHANGED <<routine, work, fit, params, slopes, report>>
    /\ CtxFrame

\* tab = simple_slope(mod, "PhaseI", inter_terms); bh_fdr(tab["$p$"], m=5)
MainSimpleSlope ==
    /\ pc = "simple_slope"
    /\ slopes' = {"QH1"} \cup InterBlocks
    /\ pc' = "write_latex"
    /\ UNCHANGED <<raised, routine, work, fit, params, report>>
    /\ CtxFrame

\* write_latex(tab, out_latex, ...)
MainWriteLatex ==
    /\ pc = "write_latex"
    /\ report' = {OutLatex}
    /\ pc' = "done"
    /\ UNCHANGED <<raised, routine, work, fit, params, slopes>>
    /\ CtxFrame

NextCtx == MainFitContext \/ MainValidate \/ MainSimpleSlope \/ MainWriteLatex

SpecCtx == InitCtx /\ [][NextCtx]_vars

-----------------------------------------------------------------------------
(* The interaction terms of the fitted context model *)

\* fit_context_model has returned a fitted model
ContextFitted == pc \in {"validate", "simple_slope", "write_latex", "done"}

\* whatever blocks the panel holds, the model fit_context_model returns has
\* the four interaction terms: the block dummies come from the five fixed
\* categories, so the check of main finds nothing missing
InterTermsFitted ==
    ContextFitted => \A b \in InterBlocks : inter_terms[b] \in params

\* a table is written for a panel that has rows of QH1 and QH2 only
InterTermsFittedWitness ==
    /\ pc = "done"
    /\ report = {OutLatex}
    /\ \A i \in 1..Len(panel) : panel[i].block \in {"QH1", "QH2"}
    /\ <<"block", "QH6", ":PhaseI">> \in params

-----------------------------------------------------------------------------
(* Model selection: fit_gmm_bic (12_B2_clustering_gmm.py).  The mixture    *)
(* fits are the library's: the model takes the BIC of each fitted mixture  *)
(* as given, in whole units.                                               *)

\* the component counts a caller may ask for (main asks for 1 through 4)
MinK == 1
MaxK == 4
\* the BIC values of the model
BicValues == {0, 1, 2}

\* the loop of fit_gmm_bic from count k on; best is <<>> (None) or <<n>>,
\* the n_components of the best model so far
BetterMutLeq(b, tab, k) == b = <<>> \/ tab[k] <= tab[b[1]]
Better(b, tab, k) == b = <<>> \/ tab[k] < tab[b[1]]

RECURSIVE GmmLoop(_, _, _, _, _)
GmmLoop(bic, k, k_max, b, tab) ==
    IF k > k_max THEN [best |-> b, bics |-> tab]
    ELSE LET tab2 == [j \in DOMAIN tab \cup {k} |->
                         IF j = k THEN bic[k] ELSE tab[j]]
         IN  GmmLoop(bic, k + 1, k_max,
                     IF Better(b, tab2, k) THEN <<k>> ELSE b, tab2)

fit_gmm_bic(bic, k_min, k_max) == GmmLoop(bic, k_min, k_max, <<>>, <<>>)

InitGmm ==
    /\ pc = "fit_gmm_bic"
    /\ raised = "none"
    /\ bic_of \in [MinK..MaxK -> BicValues]
    /\ k_range \in {<<a, b>> \in (MinK..MaxK) \X (MinK..MaxK) : a <= b}
    /\ best = <<>>
    /\ bics = <<>>
    /\ IdleHelpers
    /\ IdleLong /\ IdleFit /\ IdleCtx /\ IdleResid /\ IdleSig /\ IdleEcho
    /\ IdleLate

\* gm, bics = fit_gmm_bic(Xz, k_min, k_max)
CallFitGmmBic ==
    /\ pc = "fit_gmm_bic"
    /\ LET r == fit_gmm_bic(bic_of, k_range[1], k_range[2])
       IN  best' = r.best /\ bics' = r.bics
    /\ pc' = "done"
    /\ UNCHANGED <<raised, bic_of, k_range>>
    /\ UNCHANGED helperVars
    /\ UNCHANGED <<longVars, fitVars, ctxVars, residVars, sigVars, echoVars>>
    /\ UNCHANGED lateVars

NextGmm == CallFitGmmBic

SpecGmm == InitGmm /\ [][NextGmm]_vars

-----------------------------------------------------------------------------
(* Claims about the model selection *)

Candidates == k_range[1]..k_range[2]

\* C17: fit_gmm_bic has a BIC entry for every count from k_min to k_max and
\* returns the model whose BIC is minimal among them, the smallest such count
\* when several tie for the minimum.
C17_MinimalBic ==
    pc = "done" =>
        /\ DOMAIN bics = Candidates
        /\ \A k \in Candidates : bics[k] = bic_of[k]
        /\ Len(best) = 1
        /\ best[1] \in Candidates
        /\ \A k \in Candidates : bic_of[best[1]] <= bic_of[k]
        /\ \A k \in Candidates : bic_of[k] = bic_of[best[1]] => best[1] <= k

\* counts 1 through 4, the minimum reached by counts 2 and 4: 2 is returned
C17_Witness ==
    /\ pc = "done"
    /\ k_range = <<1, 4>>
    /\ bic_of[1] > bic_of[2]
    /\ bic_of[2] = bic_of[4]
    /\ bic_of[3] > bic_of[2]
    /\ best = <<2>>
    /\ DOMAIN bics = 1..4

-----------------------------------------------------------------------------
(* Theory-driven profiles: split_pair_name and signature_for_block         *)
(* (14_B4_theory_profiles.py).  A pair name is the sequence of the words   *)
(* it is written with ("CareFairness" is <<"Care", "Fairness">>); no value *)
(* name is a prefix of another, so str.startswith(v) compares the first    *)
(* word.  A signature is a fraction num/den or missing.                    *)

\* most participants in the table of a block
MaxSig == 2

VALUES == <<"Care", "Fairness", "Loyalty", "Authority", "Sanctity", "Liberty">>
PROFILES ==
    [ProCare |-> {"Care", "Fairness"},
     ProTradition |-> {"Authority", "Loyalty"},
     FreeSpirit |-> {"Sanctity", "Liberty"}]
\* the top of the slider scale, which an inverted item is taken from
ScaleTop == 100

\* the pair names of the model's blocks.yaml; the last one starts with no
\* value name
PairNames ==
    { <<"Care", "Fairness">>, <<"Authority", "Care">>, <<"Care", "Loyalty">>,
      <<"Loyalty", "Sanctity">>, <<"Harm", "Care">> }
\* the item columns of the block, by position in the mapping
SigColumns == <<"QH1-1", "QH1-2">>
SigCells == {NaN, Num(30)}

\* for v in VALUES: if pair.startswith(v): return v, pair[len(v):]
split_pair_name(pair) ==
    IF pair # <<>> /\ \E j \in 1..Len(VALUES) : VALUES[j] = pair[1]
    THEN [raised |-> "none", L |-> pair[1], R |-> Tail(pair)]
    ELSE [raised |-> "ValueError", L |-> "", R |-> <<>>]

\* L in focal, R in focal: R is the rest of the name, one word or more
LeftFocal(sp, foc) == sp.L \in foc
RightFocal(sp, foc) == Len(sp.R) = 1 /\ sp.R[1] \in foc

\* xor = (L in focal) ^ (R in focal)
XorMutOr(a, b) == a \/ b
Xor(a, b) == (a /\ ~b) \/ (~a /\ b)

\* the loop over mapping.items() from entry i on: the items included, each
\* with its orientation, or the ValueError of a name that does not split
RECURSIVE SigParts(_, _, _, _)
SigParts(t, mp, foc, i) ==
    IF i > Len(mp) THEN [raised |-> "none", parts |-> <<>>]
    ELSE IF mp[i].col \notin t.columns THEN SigParts(t, mp, foc, i + 1)
    ELSE LET sp == split_pair_name(mp[i].pair)
         IN  IF sp.raised # "none" THEN [raised |-> sp.raised, parts |-> <<>>]
             ELSE LET rest == SigParts(t, mp, foc, i + 1)
                      here == IF Xor(LeftFocal(sp, foc), RightFocal(sp, foc))
                              THEN <<[col |-> mp[i].col,
                                      inverted |-> RightFocal(sp, foc)]>>
                              ELSE <<>>
                  IN  [raised |-> rest.raised,
                       parts |-> IF rest.raised = "none"
                                 THEN here \o rest.parts ELSE <<>>]

\* s = df_block[col].astype(float); if R in focal: s = 100.0 - s
OrientedMutAsIs(c, inverted) == c
Oriented(c, inverted) ==
    IF inverted /\ c.k = "num" THEN Num(ScaleTop - c.v) ELSE c

\* M.mean(axis=1): the mean of the values of a row that are not missing
RowMean(cells) ==
    LET present == SelectSeq(cells, notna)
    IN  IF present = <<>> THEN NaN
        ELSE [k |-> "num",
              num |-> SeqSum([j \in 1..Len(present) |-> present[j].v]),
              den |-> Len(present)]

signature_for_block(t, mp, foc) ==
    LET r == SigParts(t, mp, foc, 1)
    IN  [raised |-> r.raised,
         parts |-> r.parts,
         signature |->
            IF r.raised # "none" THEN <<>>
            ELSE IF r.parts = <<>> THEN [i \in 1..Len(t.rows) |-> NaN]
            ELSE [i \in 1..Len(t.rows) |->
                    RowMean([j \in 1..Len(r.parts) |->
                               Oriented(t.rows[i].cells[r.parts[j].col],
                                        r.parts[j].inverted)])]]

\* the mappings of a block: distinct pairs, the j-th mapped to column j
SigMappings ==
    UNION {{[j \in 1..k |-> [pair |-> ps[j], col |-> SigColumns[j]]] :
               ps \in {f \in [1..k -> PairNames] :
                          \A a, b \in 1..k : a # b => f[a] # f[b]}} :
           k \in 0..Len(SigColumns)}

\* the tables of n participants
SigTables(n) ==
    UNION {{[columns |-> cols,
             rows |-> [i \in 1..n |-> [cells |-> cells[i]]]] :
               cells \in [1..n -> [cols -> SigCells]]} :
           cols \in SUBSET {SigColumns[j] : j \in 1..Len(SigColumns)}}

InitSig ==
    /\ pc = "signature_for_block"
    /\ raised = "none"
    /\ \E n \in 0..MaxSig : df_block \in SigTables(n)
    /\ mapping \in SigMappings
    /\ focal \in {PROFILES[prof] : prof \in DOMAIN PROFILES}
    /\ parts = <<>>
    /\ signature = <<>>
    /\ IdleHelpers
    /\ IdleLong /\ IdleFit /\ IdleCtx /\ IdleResid /\ IdleGmm /\ IdleEcho
    /\ IdleLate

\* s = signature_for_block(df_wide, mapping, focal)
CallSignatureForBlock ==
    /\ pc = "signature_for_block"
    /\ LET r == signature_for_block(df_block, mapping, focal)
       IN  /\ parts' = r.parts
           /\ signature' = r.signature
           /\ raised' = r.raised
           /\ pc' = IF r.raised = "none" THEN "done" ELSE "raised"
    /\ UNCHANGED <<df_block, mapping, focal>>
    /\ UNCHANGED helperVars
    /\ UNCHANGED <<longVars, fitVars, ctxVars, residVars, gmmVars, echoVars>>
    /\ UNCHANGED lateVars

NextSig == CallSignatureForBlock

SpecSig == InitSig /\ [][NextSig]_vars

-----------------------------------------------------------------------------
(* Claims about the signatures *)

\* the number of the two values of a pair that are focal
FocalCount(pair) ==
    Cardinality({j \in 1..2 : pair[j] \in focal})

\* the entries of the mapping whose item the claim says is included
ShouldInclude ==
    {j \in 1..Len(mapping) :
        /\ mapping[j].col \in df_block.columns
        /\ FocalCount(mapping[j].pair) = 1}

IncludedColumns == {parts[j].col : j \in 1..Len(parts)}

\* the value of an included item for a participant, oriented so that higher
\* means the focal value
OrientedValue(i, j) ==
    IF mapping[j].pair[2] \in focal
    THEN 100 - df_block.rows[i].cells[mapping[j].col].v
    ELSE df_block.rows[i].cells[mapping[j].col].v

\* the included items a participant has a value for
Answered(i) ==
    {j \in ShouldInclude : df_block.rows[i].cells[mapping[j].col].k = "num"}

\* C18: a pair's item is included iff exactly one of the pair's two values
\* is focal and the mapped column exists (zero or two focal values: nothing),
\* and the signature of a participant is the mean of their included,
\* oriented, non-missing items, undefined when there is none.
C18_Signature ==
    pc = "done" =>
        /\ IncludedColumns = {mapping[j].col : j \in ShouldInclude}
        /\ Len(parts) = Cardinality(ShouldInclude)
        /\ \A i \in 1..Len(df_block.rows) :
             IF Answered(i) = {}
             THEN signature[i].k = "nan"
             ELSE /\ signature[i].k = "num"
                  /\ signature[i].den > 0
                  /\ signature[i].num * Cardinality(Answered(i))
                       = SumOver(Answered(i),
                                 [j \in Answered(i) |-> OrientedValue(i, j)])
                           * signature[i].den

\* two items included, one of them inverted, and a pair with no focal value
\* left out: the signature is the mean of the two oriented values
C18_Witness ==
    /\ pc = "done"
    /\ focal = PROFILES.ProCare
    /\ Len(mapping) = 2
    /\ mapping[1].pair = <<"Authority", "Care">>
    /\ mapping[2].pair = <<"Care", "Loyalty">>
    /\ Len(parts) = 2
    /\ \E i \in 1..Len(df_block.rows) :
         signature[i] = [k |-> "num", num |-> 100, den |-> 2]

\* a pair with two focal values and one with none contribute nothing
C18_WitnessExcluded ==
    /\ pc = "done"
    /\ focal = PROFILES.ProCare
    /\ Len(mapping) = 2
    /\ {mapping[1].pair, mapping[2].pair}
         = {<<"Care", "Fairness">>, <<"Loyalty", "Sanctity">>}
    /\ \A j \in 1..2 : mapping[j].col \in df_block.columns
    /\ parts = <<>>
    /\ Len(df_block.rows) > 0
    /\ \A i \in 1..Len(df_block.rows) : signature[i].k = "nan"

\* the entry of the mapping for a pair, if the block maps it to a column
\* the table has
EntriesOf(pair) ==
    {j \in 1..Len(mapping) :
        mapping[j].pair = pair /\ mapping[j].col \in df_block.columns}

IsIncluded(j) == \E a \in 1..Len(parts) : parts[a].col = mapping[j].col
IsInverted(j) ==
    \E a \in 1..Len(parts) : parts[a].col = mapping[j].col /\ parts[a].inverted

\* an included item is inverted as 100 - raw iff the focal value is the
\* second member of the pair, and kept as it is when it is the first
InvertedIffSecond ==
    /\ \A j \in 1..Len(mapping) :
         IsIncluded(j) => (IsInverted(j) <=> mapping[j].pair[2] \in focal)
    /\ Len(parts) = 1 =>
         \A i \in 1..Len(df_block.rows) : \A j \in 1..Len(mapping) :
            IsIncluded(j) /\ df_block.rows[i].cells[mapping[j].col].k = "num" =>
               /\ signature[i].k = "num"
               /\ signature[i].num =
                    signature[i].den *
                      (IF mapping[j].pair[2] \in focal
                       THEN 100 - df_block.rows[i].cells[mapping[j].col].v
                       ELSE df_block.rows[i].cells[mapping[j].col].v)

\* C19 (as stated): an included item is inverted iff the focal value is the
\* second member of the pair; for the focal set {Care, Fairness} the pair
\* CareFairness is included and not inverted and the pair AuthorityCare is
\* included and inverted.
C19_Orientation ==
    pc = "done" =>
        /\ InvertedIffSecond
        /\ focal = PROFILES.ProCare =>
             /\ \A j \in EntriesOf(<<"Care", "Fairness">>) :
                  IsIncluded(j) /\ ~IsInverted(j)
             /\ \A j \in EntriesOf(<<"Authority", "Care">>) :
                  IsIncluded(j) /\ IsInverted(j)

\* C19 (amended): for the focal set {Care, Fairness} the pair CareFairness
\* has two focal values and is not included at all; the pair CareLoyalty is
\* included and not inverted and the pair AuthorityCare is included and
\* inverted.
C19_OrientationOneFocal ==
    pc = "done" =>
        /\ InvertedIffSecond
        /\ focal = PROFILES.ProCare =>
             /\ \A j \in EntriesOf(<<"Care", "Fairness">>) : ~IsIncluded(j)
             /\ \A j \in EntriesOf(<<"Care", "Loyalty">>) :
                  IsIncluded(j) /\ ~IsInverted(j)
             /\ \A j \in EntriesOf(<<"Authority", "Care">>) :
                  IsIncluded(j) /\ IsInverted(j)

\* CareFairness and AuthorityCare under {Care, Fairness}: only the second is
\* included, inverted (30 becomes 70)
C19_Witness ==
    /\ pc = "done"
    /\ focal = PROFILES.ProCare
    /\ EntriesOf(<<"Care", "Fairness">>) # {}
    /\ EntriesOf(<<"Authority", "Care">>) # {}
    /\ Len(parts) = 1
    /\ parts[1].inverted
    /\ \E i \in 1..Len(df_block.rows) :
         signature[i] = [k |-> "num", num |-> 70, den |-> 1]

\* CareLoyalty under {Care, Fairness}: included as it is
C19_WitnessFirst ==
    /\ pc = "done"
    /\ focal = PROFILES.ProCare
    /\ EntriesOf(<<"Care", "Loyalty">>) # {}
    /\ Len(parts) = 1
    /\ ~parts[1].inverted
    /\ \E i \in 1..Len(df_block.rows) :
         signature[i] = [k |-> "num", num |-> 30, den |-> 1]

-----------------------------------------------------------------------------
(* Echo slope within a profile: fit_echo_slope (14_B4_theory_profiles.py). *)
(* The fit is kept abstract: each returned number is "nan" or "est", an    *)
(* estimate of the model fitted to the recorded sample.                    *)

\* most observations given to fit_echo_slope
MaxObs == 11
\* most of them with a missing y, x or id
MaxIncomplete == 2
\* fewest complete observations a slope is fitted to
MinEchoObs == 10

CompleteObs == [y |-> Num(1), x |-> Num(1), id |-> "R1"]
IncompleteObs ==
    { [y |-> NaN, x |-> Num(1), id |-> "R1"],
      [y |-> Num(1), x |-> NaN, id |-> "R1"],
      [y |-> Num(1), x |-> Num(1), id |-> NaNId] }

\* pd.DataFrame({"y": y, "x": x, "id": ids}).dropna(): is the row kept
ObsNotna(r) == notna(r.y) /\ notna(r.x) /\ r.id # NaNId

TooFewEchoMutNine(n) == n < MinEchoObs - 1
TooFewEcho(n) == n < MinEchoObs

fit_echo_slope(o) ==
    LET s == SelectIdx([i \in 1..Len(o) |-> ObsNotna(o[i])], 1)
    IN  IF TooFewEcho(Len(s))
        THEN [kind |-> "nan", beta |-> "nan", se |-> "nan", p |-> "nan",
              ci |-> <<"nan", "nan">>, sample |-> <<>>]
        ELSE [kind |-> "fit", beta |-> "est", se |-> "est", p |-> "est",
              ci |-> <<"est", "est">>, sample |-> s]

InitEcho ==
    /\ pc = "fit_echo_slope"
    /\ raised = "none"
    /\ \E n \in 0..MaxObs :
         \E S \in {T \in SUBSET (1..n) : Cardinality(T) <= MaxIncomplete} :
            \E inc \in [S -> IncompleteObs] :
               obs = [i \in 1..n |-> IF i \in S THEN inc[i] ELSE CompleteObs]
    /\ echo = NoEcho
    /\ IdleHelpers
    /\ IdleLong /\ IdleFit /\ IdleCtx /\ IdleResid /\ IdleGmm /\ IdleSig
    /\ IdleLate

\* beta, se, p, ci = fit_echo_slope(y, x, ids)
CallFitEchoSlope ==
    /\ pc = "fit_echo_slope"
    /\ echo' = fit_echo_slope(obs)
    /\ pc' = "done"
    /\ UNCHANGED <<raised, obs>>
    /\ UNCHANGED helperVars
    /\ UNCHANGED <<longVars, fitVars, ctxVars, residVars, gmmVars, sigVars>>
    /\ UNCHANGED lateVars

NextEcho == CallFitEchoSlope

SpecEcho == InitEcho /\ [][NextEcho]_vars

-----------------------------------------------------------------------------
(* Claims about the echo slope *)

\* the observations with the block signature, the baseline signature and
\* the identifier all present
CompleteSet ==
    {i \in 1..Len(obs) :
        obs[i].y.k = "num" /\ obs[i].x.k = "num" /\ obs[i].id # NaNId}

\* C20: fit_echo_slope returns NaN for the slope, the standard error, the
\* p-value and both confidence bounds whenever fewer than 10 observations
\* are complete, and with 10 or more fits on the complete observations only.
C20_TenComplete ==
    pc = "done" =>
        IF Cardinality(CompleteSet) < 10
        THEN /\ echo.beta = "nan" /\ echo.se = "nan" /\ echo.p = "nan"
             /\ echo.ci = <<"nan", "nan">>
        ELSE /\ echo.kind = "fit"
             /\ echo.beta = "est" /\ echo.se = "est" /\ echo.p = "est"
             /\ {echo.sample[k] : k \in 1..Len(echo.sample)} = CompleteSet
             /\ Len(echo.sample) = Cardinality(CompleteSet)

\* eleven observations, two of them incomplete: nine are complete, NaN
C20_Witness ==
    /\ pc = "done"
    /\ Len(obs) = 11
    /\ Cardinality(CompleteSet) = 9
    /\ echo.beta = "nan"
    /\ echo.ci = <<"nan", "nan">>

\* eleven observations, one of them incomplete: fitted on the other ten
C20_WitnessFitted ==
    /\ pc = "done"
    /\ Len(obs) = 11
    /\ Cardinality(CompleteSet) = 10
    /\ echo.kind = "fit"
    /\ Len(echo.sample) = 10

-----------------------------------------------------------------------------
(* Block structure: main of 11_B1_block_structure.py.  The table read from *)
(* the cleaned CSV has numeric or missing cells in its item columns.  The  *)
(* PCA is kept abstract: a statistic is "nan" or "num", a number computed  *)
(* from the complete standardised rows.                                    *)

\* most rows of the cleaned table
MaxStructRows == 6
\* most rows of it with a missing item
MaxGaps == 2
\* fewest item columns a block is analysed with
MinItems == 3
\* fewest complete standardised rows a PCA is fitted to
MinPcaRows == 5

\* blocks.yaml: the item columns of each block (the values of its mapping)
StructMapping(block) ==
    IF block = "QH1" THEN <<"QH1-1", "QH1-2", "QH1-3">>
                     ELSE <<"QH2-1", "QH2-2", "QH2-3">>
\* block_maps in the order of the YAML file
StructBlockMaps ==
    { [i \in 1..2 |-> [block |-> o[i], cols |-> StructMapping(o[i])]] :
        o \in {<<"QH1", "QH2">>, <<"QH2", "QH1">>} }
\* the item columns the cleaned table can have: a block has all three of
\* its items or lacks the last one
StructHeaders ==
    { {"QH1-1", "QH1-2", "QH2-1", "QH2-2"} \cup extra :
        extra \in SUBSET {"QH1-3", "QH2-3"} }
\* columns a participant can have left unanswered
GapColumns == {"QH1-1", "QH2-2"}
\* a column every participant can have answered alike
FlatColumns == {"none", "QH2-1"}

\* the cleaned table: row i answers i to every item, except the unanswered
\* item of the rows in gaps and the item everyone answered alike
StructTable(cols, n, gaps, flat) ==
    [columns |-> cols,
     rows |-> [i \in 1..n |->
                [c \in cols |->
                   IF i \in DOMAIN gaps /\ gaps[i] = c THEN NaN
                   ELSE IF c = flat THEN Num(50)
                   ELSE Num(i)]]]

\* cols = [c for c in mapping.values() if c in df.columns]
PresentCols(t, cols) == SelectSeq(cols, LAMBDA c : c \in t.columns)

\* Z.std(axis=0, ddof=1) is a positive number: the column has two
\* different observed values
Varies(t, c) ==
    \E i, j \in 1..Len(t.rows) :
        /\ notna(t.rows[i][c]) /\ notna(t.rows[j][c])
        /\ t.rows[i][c].v # t.rows[j][c].v

\* zscore_cols: is the standardised cell a number ((x - mean) / std is NaN
\* for a missing x and for a column whose std is 0 or undefined)
ZNotna(t, i, c) == notna(t.rows[i][c]) /\ Varies(t, c)

\* Z.dropna(axis=0, how="any"): positions of the rows kept
ZComplete(t, cols) ==
    SelectIdx([i \in 1..Len(t.rows) |->
                 \A k \in 1..Len(cols) : ZNotna(t, i, cols[k])], 1)

TooFewPcaRows(n) == n < MinPcaRows

omega_total_from_pca(t, cols) ==
    IF TooFewPcaRows(Len(ZComplete(t, cols))) THEN "nan" ELSE "num"

pca_var_explained(t, cols) ==
    IF TooFewPcaRows(Len(ZComplete(t, cols)))
    THEN <<"nan", "nan">> ELSE <<"num", "num">>

\* the loop of main over block_maps.items(): the rows appended
RECURSIVE StructRows(_, _, _)
StructRows(t, bm, i) ==
    IF i > Len(bm) THEN <<>>
    ELSE LET cols == PresentCols(t, bm[i].cols)
             rest == StructRows(t, bm, i + 1)
         IN  IF Len(cols) < MinItems THEN rest
             ELSE <<[Block |-> bm[i].block,
                     omega |-> omega_total_from_pca(t, cols),
                     pc1 |-> pca_var_explained(t, cols)[1],
                     pc2 |-> pca_var_explained(t, cols)[2]]>> \o rest

\* DataFrame.sort_values("Block") over at most two rows
SortByBlock(r) ==
    IF Len(r) = 2 /\ r[1].Block = "QH2" THEN <<r[2], r[1]>> ELSE r

InitB1 ==
    /\ pc = "main_b1"
    /\ raised = "none"
    /\ \E cols \in StructHeaders, n \in 0..MaxStructRows, flat \in FlatColumns :
         \E S \in {T \in SUBSET (1..n) : Cardinality(T) <= MaxGaps} :
            \E gaps \in [S -> GapColumns] :
               df_clean = StructTable(cols, n, gaps, flat)
    /\ block_maps \in StructBlockMaps
    /\ structure = <<>>
    /\ IdleFrame /\ IdleGen /\ IdleMod /\ IdleA4 /\ IdleSplit /\ IdleCode
    /\ IdleHelpers
    /\ IdleLong /\ IdleFit /\ IdleCtx /\ IdleResid /\ IdleGmm /\ IdleSig /\ IdleEcho

\* main(clean_csv, blocks_yaml, out_latex): pd.DataFrame(rows) of no rows has
\* no "Block" column, and sort_values raises KeyError
MainB1 ==
    /\ pc = "main_b1"
    /\ LET rows == StructRows(df_clean, block_maps, 1)
       IN  IF rows = <<>>
           THEN /\ raised' = "KeyError"
                /\ pc' = "raised"
                /\ UNCHANGED structure
           ELSE /\ structure' = SortByBlock(rows)
                /\ pc' = "done"
                /\ UNCHANGED raised
    /\ UNCHANGED <<df_clean, block_maps>>
    /\ UNCHANGED <<frameVars, genVars, modVars, a4Vars, splitVars, codeVars>>
    /\ UNCHANGED helperVars
    /\ UNCHANGED <<longVars, fitVars, ctxVars, residVars, gmmVars, sigVars, echoVars>>

NextB1 == MainB1

SpecB1 == InitB1 /\ [][NextB1]_vars

-----------------------------------------------------------------------------
(* Claims about the block structure table *)

\* the item columns of a block that the cleaned table has
ItemsPresent(b) ==
    {c \in {b.cols[k] : k \in 1..Len(b.cols)} : c \in df_clean.columns}

\* the rows of the cleaned table complete on all present items of a block
CompleteOnItems(b) ==
    {i \in 1..Len(df_clean.rows) :
        \A c \in ItemsPresent(b) : df_clean.rows[i][c].k = "num"}

\* the rows of the output table that report a block
StructRowsOf(b) ==
    {k \in 1..Len(structure) : structure[k].Block = b.block}

\* C21: a block with fewer than 3 item columns present or with fewer than 5
\* rows complete on all its items contributes no row to the output table;
\* every other block contributes exactly one row.
C21_SkippedBlocks ==
    pc = "done" =>
        \A k \in 1..Len(block_maps) :
            LET b == block_maps[k]
            IN  IF \/ Cardinality(ItemsPresent(b)) < 3
                   \/ Cardinality(CompleteOnItems(b)) < 5
                THEN StructRowsOf(b) = {}
                ELSE Cardinality(StructRowsOf(b)) = 1

\* what main does: a block with fewer than 3 item columns contributes no
\* row, every other block exactly one, whose statistics are all NaN when
\* fewer than 5 standardised rows are complete.
C21_RowUnlessFewColumns ==
    pc = "done" =>
        \A k \in 1..Len(block_maps) :
            LET b == block_maps[k]
            IN  IF Cardinality(ItemsPresent(b)) < 3
                THEN StructRowsOf(b) = {}
                ELSE /\ Cardinality(StructRowsOf(b)) = 1
                     /\ \A j \in StructRowsOf(b) :
                          Cardinality(CompleteOnItems(b)) < 5 =>
                             /\ structure[j].omega = "nan"
                             /\ structure[j].pc1 = "nan"
                             /\ structure[j].pc2 = "nan"

\* a block with its three items and four complete rows is in the table
C21_RowOfNaN ==
    /\ pc = "done"
    /\ \E k \in 1..Len(block_maps) :
         /\ Cardinality(ItemsPresent(block_maps[k])) = 3
         /\ Cardinality(CompleteOnItems(block_maps[k])) = 4
         /\ \E j \in StructRowsOf(block_maps[k]) : structure[j].omega = "nan"

-----------------------------------------------------------------------------
(* Passing a table to apply_cleaning (01_load_clean_qualtrics.py),         *)
(* residualise_phase2_on_pc1 (06_A2_pc1_residualisation.py) and            *)
(* extract_block_long (sa_utils.py).  A pandas table is an object: an      *)
(* assignment df[c] = ... changes the object the name df refers to.  A     *)
(* routine works with two objects, the one the caller passed ("arg") and   *)
(* the one it creates with .copy() ("new"); name tells which of the two    *)
(* its working name refers to.                                             *)

\* on entry the working name refers to the caller's object
Enter(t) == [arg |-> t, new |-> <<>>, name |-> "arg"]

\* x = df.copy(): a new object with the same cells, the working name
\* refers to it from here on
DataFrameCopyMutAlias(h) == [h EXCEPT !.new = h.arg]
DataFrameCopy(h) == [h EXCEPT !.new = h.arg, !.name = "new"]

\* the table the working name refers to
Deref(h) == h[h.name]

\* df[c] = ...: the object the working name refers to becomes t
AssignColumns(h, t) == [h EXCEPT ![h.name] = t]

\* apply_cleaning: df = df.copy(), then _coerce_numeric assigns the coerced
\* columns to df in place; kept and dropped are new tables
PassApplyCleaning(t, c) ==
    LET h1 == DataFrameCopy(Enter(t))
        h2 == AssignColumns(h1, coerce_numeric(Deref(h1), c.slider_cols))
        r == apply_cleaning(t, c)
    IN  [arg |-> h2.arg, raised |-> r.raised,
         out |-> [kept |-> r.kept, dropped |-> r.dropped]]

\* the tables given to residualise_phase2_on_pc1 map a column to the cells
\* of the participants; "P1Q-1" is a column that is never residualised
ResidTableColumns == {"P1Q-1", "QH1-1", "QH2-1"}
\* the phase2_cols argument
ResidListed == {<<>>, <<"QH1-1">>, <<"QH1-1", "QH2-1">>}

\* the loop of residualise_phase2_on_pc1 from column i on: y is read from
\* df_wide (the caller's object), the result is assigned to df_res
RECURSIVE ResidualiseLoop(_, _, _, _)
ResidualiseLoop(h, cols, x, i) ==
    IF i > Len(cols) THEN h
    ELSE LET y == h.arg[cols[i]]
             res == [Deref(h) EXCEPT ![cols[i]] = ResidualiseColumn(x, y)]
         IN  ResidualiseLoop(AssignColumns(h, res), cols, x, i + 1)

\* residualise_phase2_on_pc1: df_res = df_wide.copy(), then a column of
\* df_res is assigned for each listed column; df_res is returned
PassResidualise(t, cols, x) ==
    LET h == ResidualiseLoop(DataFrameCopy(Enter(t)), cols, x, 1)
    IN  [arg |-> h.arg, raised |-> "none", out |-> Deref(h)]

\* extract_block_long: reads df_wide["ResponseId"] and df_wide[col] and
\* builds new tables from them; it assigns to nothing of df_wide
PassExtractBlockLong(t, block, mp) ==
    LET h == Enter(t)
    IN  [arg |-> h.arg, raised |-> "none", out |-> extract_block_long(t, block, mp)]

InitFrame ==
    /\ raised = "none"
    /\ \/ /\ pc = "pass_apply_cleaning"
          /\ \E n \in 0..MaxRows :
               \E cells \in [1..n -> CellRows] :
                 \E labels \in IndexLabelings(n) :
                   before = [i \in 1..n |->
                               [label |-> labels[i], ResponseId |-> RowIds[i],
                                Finished |-> "True", cells |-> cells[i]]]
          /\ \E c \in CfgSet : callee = [name |-> "apply_cleaning", cfg |-> c]
       \/ /\ pc = "pass_residualise"
          /\ \E n \in 0..MaxPart :
               /\ \E first \in [1..n -> ItemCells] : \E k \in 0..n :
                    before = [c \in ResidTableColumns |->
                                IF c = "QH1-1" THEN first
                                ELSE IF c = "QH2-1" THEN SecondItem(n, k)
                                ELSE [i \in 1..n |-> Num(i)]]
               /\ \E x \in [1..n -> PC1Values], cols \in ResidListed :
                    callee = [name |-> "residualise_phase2_on_pc1",
                              phase2_cols |-> cols, pc1 |-> x]
       \/ /\ pc = "pass_extract_block_long"
          /\ \E n \in 0..MaxWide : before \in WideTables(n)
          /\ \E b \in {"QH1", "QH2"}, mp \in Mappings(1) :
               callee = [name |-> "extract_block_long", block |-> b, mapping |-> mp]
    /\ passed = before
    /\ returned = <<>>
    /\ IdleB1 /\ IdleGen /\ IdleMod /\ IdleA4 /\ IdleSplit /\ IdleCode
    /\ IdleHelpers
    /\ IdleLong /\ IdleFit /\ IdleCtx /\ IdleResid /\ IdleGmm /\ IdleSig /\ IdleEcho

\* the caller's table after the call, and what the call returned
Returns(r) ==
    /\ passed' = r.arg
    /\ returned' = r.out
    /\ raised' = r.raised
    /\ pc' = IF r.raised = "none" THEN "done" ELSE "raised"
    /\ UNCHANGED <<callee, before>>
    /\ UNCHANGED <<b1Vars, genVars, modVars, a4Vars, splitVars, codeVars>>
    /\ UNCHANGED helperVars
    /\ UNCHANGED <<longVars, fitVars, ctxVars, residVars, gmmVars, sigVars, echoVars>>

\* kept, dropped = apply_cleaning(df, cfg)
PassToApplyCleaning ==
    /\ pc = "pass_apply_cleaning"
    /\ Returns(PassApplyCleaning(passed, callee.cfg))

\* df_res = residualise_phase2_on_pc1(df_wide, phase2_cols, pc1)
PassToResidualise ==
    /\ pc = "pass_residualise"
    /\ Returns(PassResidualise(passed, callee.phase2_cols, callee.pc1))

\* long = extract_block_long(df_wide, block, mapping)
PassToExtractBlockLong ==
    /\ pc = "pass_extract_block_long"
    /\ Returns(PassExtractBlockLong(passed, callee.block, callee.mapping))

NextFrame == PassToApplyCleaning \/ PassToResidualise \/ PassToExtractBlockLong

SpecFrame == InitFrame /\ [][NextFrame]_vars

-----------------------------------------------------------------------------
(* Claims about the tables passed *)

\* the columns named in phase2_cols
ListedColumns ==
    {callee.phase2_cols[k] : k \in 1..Len(callee.phase2_cols)}

\* C22: apply_cleaning, residualise_phase2_on_pc1 and extract_block_long
\* leave every cell of the caller's table as it was before the call, and
\* the table residualise_phase2_on_pc1 returns differs from its input only
\* in the listed Phase-II item columns.
C22_CallerTableUntouched ==
    pc \in {"done", "raised"} =>
        /\ passed = before
        /\ callee.name = "residualise_phase2_on_pc1" =>
              /\ DOMAIN returned = DOMAIN before
              /\ \A c \in DOMAIN before :
                    c \notin ListedColumns => returned[c] = before[c]

\* apply_cleaning was given a table with an unparseable cell: the kept table
\* has the cell coerced to missing, the caller's table still has the text
C22_Witness ==
    /\ pc = "done"
    /\ callee.name = "apply_cleaning"
    /\ \E i \in 1..Len(before), j \in 1..Len(returned.kept) :
         /\ returned.kept[j].ResponseId = before[i].ResponseId
         /\ \E c \in DOMAIN before[i].cells :
              /\ before[i].cells[c] = Text
              /\ returned.kept[j].cells[c] = NaN
              /\ passed[i].cells[c] = Text

\* residualise_phase2_on_pc1 replaced a listed column and returned the
\* unlisted item column as it was
C22_WitnessResidualised ==
    /\ pc = "done"
    /\ callee.name = "residualise_phase2_on_pc1"
    /\ callee.phase2_cols = <<"QH1-1">>
    /\ returned["QH1-1"] # before["QH1-1"]
    /\ returned["QH2-1"] = before["QH2-1"]
    /\ \E i \in 1..Len(before["QH2-1"]) : before["QH2-1"][i] # NaN
    /\ passed["QH1-1"] = before["QH1-1"]

\* extract_block_long built a long table from a table with an unparseable
\* item cell, which the caller's table still has
C22_WitnessExtracted ==
    /\ pc = "done"
    /\ callee.name = "extract_block_long"
    /\ returned # <<>>
    /\ \E i \in 1..Len(before.rows) : \E c \in before.columns :
         before.rows[i].cells[c] = Text /\ passed.rows[i].cells[c] = Text

-----------------------------------------------------------------------------
(* Vignette generation: main of src/main.py.  A generated text is a record *)
(* [kind, by, about]: what it is, the prompt or reviewer that asked for    *)
(* it, and the text it was made from; the empty string the client returns  *)
(* on an error is Empty.  The client's answers are chosen freely.          *)

\* most value pairs generate_value_pair returns in the model
MaxPairs == 2
\* most calls of the client that return nothing in one run
MaxEmpty == 2

\* how many of the texts are empty
EmptyCount(texts) == Cardinality({k \in DOMAIN texts : texts[k].kind = "empty"})

HypothesisType == <<"H1", "H2", "H3", "H4", "H5", "H6">>

Empty == [kind |-> "empty", by |-> "none", about |-> "none"]
Scenario == [kind |-> "scenario", by |-> "single_scenario", about |-> "none"]
Vignette(h) == [kind |-> "vignette", by |-> h, about |-> "scenarios"]
Reviewed(h) == [kind |-> "reviewed", by |-> h, about |-> Vignette(h)]
Question(fn, text) == [kind |-> "question", by |-> fn, about |-> text]

\* PIPELINE[hypothesis]["reviewer"]
Reviewer(h) == h

\* PIPELINE[hypothesis]["prompts"]: the (label, prompt function) entries
PromptEntriesMutSingle(h) ==
    <<[label |-> "question", fn |-> h]>>
PromptEntries(h) ==
    IF h = "H2"
    THEN <<[label |-> "H2", fn |-> "H2"], [label |-> "H5", fn |-> "H5"]>>
    ELSE <<[label |-> "question", fn |-> h]>>

\* the answers of the client to the question prompts of one hypothesis: a
\* question made from the text the prompt was built on, or nothing
QuestionAnswers(entries, text) ==
    {a \in [1..Len(entries) -> {Empty} \cup
                {Question(entries[k].fn, text) : k \in 1..Len(entries)}] :
        \A k \in 1..Len(entries) :
            a[k] = Empty \/ a[k] = Question(entries[k].fn, text)}

\* the loop over prompt_entries: questions[label] = q for every q given
QuestionsDict(entries, a) ==
    [l \in {entries[k].label : k \in {j \in 1..Len(entries) : a[j] # Empty}} |->
        a[CHOOSE k \in 1..Len(entries) : entries[k].label = l]]

\* steps c) and d) of the loop body for a vignette that was generated: the
\* entry appended to pair_results, <<>> when the body ends in a continue
HypothesisEntry(h, vignette, reviewed, a) ==
    LET entries == PromptEntries(h)
    IN  IF Len(entries) = 1
        THEN IF a[1] = Empty THEN <<>>
             ELSE <<[hypothesis |-> h, vignette |-> vignette, question |-> a[1]]>>
        ELSE LET questions == QuestionsDict(entries, a)
             IN  IF Cardinality(DOMAIN questions) # Len(entries) THEN <<>>
                 ELSE <<[hypothesis |-> h, vignette |-> vignette,
                         questions |-> questions]>>

InitGen ==
    /\ pc = "pair"
    /\ raised = "none"
    /\ pair_no = 1
    /\ hyp_no = 0
    /\ pair_results = <<>>
    /\ answered = [p \in 1..MaxPairs |-> TRUE]
    /\ saved = <<>>
    /\ empties = 0
    /\ IdleB1 /\ IdleFrame /\ IdleMod /\ IdleA4 /\ IdleSplit /\ IdleCode
    /\ IdleHelpers
    /\ IdleLong /\ IdleFit /\ IdleCtx /\ IdleResid /\ IdleGmm /\ IdleSig /\ IdleEcho

GenFrame ==
    /\ UNCHANGED raised
    /\ UNCHANGED <<b1Vars, frameVars, modVars, a4Vars, splitVars, codeVars>>
    /\ UNCHANGED helperVars
    /\ UNCHANGED <<longVars, fitVars, ctxVars, residVars, gmmVars, sigVars, echoVars>>

\* for pair in value_pairs: the two scenarios are generated; the pair is
\* skipped when one of them is empty
StartPair ==
    /\ pc = "pair"
    /\ pair_no <= MaxPairs
    /\ \E scenarioA, scenarioB \in {Empty, Scenario} :
         /\ empties' = empties + EmptyCount(<<scenarioA, scenarioB>>)
         /\ empties' <= MaxEmpty
         /\ IF scenarioA = Empty \/ scenarioB = Empty
            THEN /\ answered' = [answered EXCEPT ![pair_no] = FALSE]
                 /\ pair_no' = pair_no + 1
                 /\ UNCHANGED <<pc, hyp_no, pair_results>>
            ELSE /\ pair_results' = <<>>
                 /\ hyp_no' = 1
                 /\ pc' = "hypothesis"
                 /\ UNCHANGED <<pair_no, answered>>
    /\ UNCHANGED saved
    /\ GenFrame

\* for hypothesis in HypothesisType: H4 is skipped
SkipH4 ==
    /\ pc = "hypothesis"
    /\ hyp_no <= Len(HypothesisType)
    /\ HypothesisType[hyp_no] = "H4"
    /\ hyp_no' = hyp_no + 1
    /\ UNCHANGED <<pc, pair_no, pair_results, answered, saved, empties>>
    /\ GenFrame

\* the loop body for the other hypotheses: combined vignette, review,
\* question(s), append
RunHypothesis ==
    /\ pc = "hypothesis"
    /\ hyp_no <= Len(HypothesisType)
    /\ HypothesisType[hyp_no] # "H4"
    /\ LET h == HypothesisType[hyp_no]
       IN  \E vignette \in {Empty, Vignette(h)} :
             IF vignette = Empty
             THEN /\ answered' = [answered EXCEPT ![pair_no] = FALSE]
                  /\ empties' = empties + 1
                  /\ empties' <= MaxEmpty
                  /\ UNCHANGED pair_results
             ELSE \E reviewed \in {Empty, Reviewed(Reviewer(h))} :
                    \E a \in QuestionAnswers(PromptEntries(h), reviewed) :
                      /\ empties' = empties + EmptyCount(<<reviewed>> \o a)
                      /\ empties' <= MaxEmpty
                      /\ pair_results' =
                            pair_results \o HypothesisEntry(h, vignette, reviewed, a)
                      /\ answered' =
                            [answered EXCEPT ![pair_no] =
                                /\ @
                                /\ reviewed # Empty
                                /\ \A k \in DOMAIN a : a[k] # Empty]
    /\ hyp_no' = hyp_no + 1
    /\ UNCHANGED <<pc, pair_no, saved>>
    /\ GenFrame

\* if pair_results: save_to_pdf(pair, pair_results, ...) inside try/except
SavePair ==
    /\ pc = "hypothesis"
    /\ hyp_no > Len(HypothesisType)
    /\ saved' = IF pair_results # <<>>
                THEN Append(saved, [pair |-> pair_no, results |-> pair_results])
                ELSE saved
    /\ pair_no' = pair_no + 1
    /\ pc' = "pair"
    /\ UNCHANGED <<hyp_no, pair_results, answered, empties>>
    /\ GenFrame

\* the loop over value_pairs is over
FinishGen ==
    /\ pc = "pair"
    /\ pair_no > MaxPairs
    /\ pc' = "done"
    /\ UNCHANGED genVars
    /\ GenFrame

NextGen == StartPair \/ SkipH4 \/ RunHypothesis \/ SavePair \/ FinishGen

SpecGen == InitGen /\ [][NextGen]_vars

-----------------------------------------------------------------------------
(* Claims about the generation pipeline *)

\* the save_to_pdf calls made for pair p
SavesOf(p) == {k \in 1..Len(saved) : saved[k].pair = p}

\* the entries of a result list for hypothesis h
EntriesFor(res, h) == {j \in 1..Len(res) : res[j].hypothesis = h}

\* the H2 entry holds both questions, asked about one reviewed vignette
TwoQuestions(r) ==
    /\ "questions" \in DOMAIN r
    /\ "question" \notin DOMAIN r
    /\ DOMAIN r.questions = {"H2", "H5"}
    /\ r.questions["H2"].kind = "question"
    /\ r.questions["H5"].kind = "question"
    /\ r.questions["H2"].about = r.questions["H5"].about
    /\ r.questions["H2"].about.kind = "reviewed"

OneQuestion(r) ==
    /\ "question" \in DOMAIN r
    /\ "questions" \notin DOMAIN r
    /\ r.question.kind = "question"

\* C23: for every value pair for which all generation calls returned text,
\* the results handed to save_to_pdf have exactly one entry for each of H1,
\* H2, H3, H5 and H6 and none for H4; the H2 entry holds a 'questions'
\* mapping with keys {H2, H5}, both made from the same reviewed vignette,
\* and the other entries hold a single 'question'.
C23_Routing ==
    \A p \in 1..MaxPairs :
        (p < pair_no /\ answered[p]) =>
            /\ Cardinality(SavesOf(p)) = 1
            /\ \A k \in SavesOf(p) :
                 LET res == saved[k].results
                 IN  /\ \A h \in {"H1", "H2", "H3", "H5", "H6"} :
                          Cardinality(EntriesFor(res, h)) = 1
                     /\ EntriesFor(res, "H4") = {}
                     /\ Len(res) = 5
                     /\ \A j \in 1..Len(res) :
                          IF res[j].hypothesis = "H2"
                          THEN TwoQuestions(res[j])
                          ELSE OneQuestion(res[j])

\* a pair whose calls all returned text has been saved with five entries
C23_Witness ==
    /\ pair_no > 1
    /\ answered[1]
    /\ \E k \in SavesOf(1) :
         /\ Len(saved[k].results) = 5
         /\ \E j \in 1..5 : /\ saved[k].results[j].hypothesis = "H2"
                            /\ DOMAIN saved[k].results[j].questions = {"H2", "H5"}

\* a pair for which the H5 question of the H2 vignette came back empty has
\* been saved without an H2 entry
C23_WitnessIncomplete ==
    /\ pair_no > 1
    /\ ~answered[1]
    /\ \E k \in SavesOf(1) :
         /\ Len(saved[k].results) = 4
         /\ EntriesFor(saved[k].results, "H2") = {}

-----------------------------------------------------------------------------
(* Cluster moderation: fit_block of 13_B3_cluster_moderation.py with its   *)
(* design and the dict it returns.  The panel is the long panel merged     *)
(* with the cluster labels; each reported quantity is "num" or "nan".      *)

\* the cluster labels of the two participants of the model
ClusterLabels == {0, 1, 2}
ClusterAssignments ==
    { [R1 |-> 0, R2 |-> 0], [R1 |-> 0, R2 |-> 1], [R1 |-> 1, R2 |-> 1],
      [R1 |-> 0, R2 |-> 2], [R1 |-> 1, R2 |-> 2] }

\* df.merge(assign[["ResponseId", "cluster"]], on="ResponseId", how="inner")
ClusterPanels(n) ==
    {[i \in 1..n |->
        [ResponseId |-> p[i].ResponseId, pair |-> p[i].pair, block |-> p[i].block,
         PhaseI |-> p[i].PhaseI, PhaseII |-> p[i].PhaseII,
         cluster |-> cl[p[i].ResponseId]]] :
       p \in Panels(n), cl \in ClusterAssignments}

\* pd.get_dummies(sub["cluster"].astype(int), prefix="C", drop_first=True):
\* the labels that get a column C_k, all present labels but the smallest
ClusterDummies(p, sub) ==
    LET present == {p[sub[k]].cluster : k \in 1..Len(sub)}
    IN  {c \in present : \E d \in present : d < c}

\* pd.get_dummies(sub["pair"], prefix="pair", drop_first=True)
PairDummies(p, sub) ==
    LET present == SelectSeq(SortedPairs,
                             LAMBDA l : \E k \in 1..Len(sub) : p[sub[k]].pair = l)
    IN  {present[k] : k \in 2..Len(present)}

\* X["PhaseI:C1"]: the product with C_1 when d_cluster has that column,
\* the constant 0.0 otherwise
InteractionColumn(p, sub) ==
    IF 1 \in ClusterDummies(p, sub) THEN "PhaseI*C_1" ELSE "zeros"

\* res.params.index: the columns of X after sm.add_constant (a column of
\* zeros is no constant for add_constant and stays in the design)
ParamsIndex(p, sub) ==
    {<<"const">>, <<"PhaseI">>, <<"PhaseI:C1">>}
      \cup {<<"C", c>> : c \in ClusterDummies(p, sub)}
      \cup {<<"pair", l>> : l \in PairDummies(p, sub)}

HasInteraction(p, sub) == <<"PhaseI:C1">> \in ParamsIndex(p, sub)

\* the dicts fit_block can return for the rows sub and the outcome o of the
\* fit.  The coefficient of a column of zeros is 0 (pinv), so the cluster-1
\* slope is then the PhaseI coefficient itself; the interaction p-value is
\* that of 0 / 0.  An effect size is NaN when its standard error is 0 or
\* no degree of freedom is left.
ModerationRows(p, sub, block, o) ==
    LET est == IF o = "fit" THEN "num" ELSE "nan"
        rs == IF o = "fit" THEN {"num", "nan"} ELSE {"nan"}
        ps == IF o # "fit" \/ InteractionColumn(p, sub) = "zeros"
              THEN {"nan"} ELSE {"num", "nan"}
    IN  IF HasInteraction(p, sub)
        THEN {[name |-> "fit_block", Block |-> block,
               b0 |-> est, ci0 |-> <<est, est>>, r0 |-> e0,
               est |-> est, ci1 |-> <<est, est>>, r1 |-> e1, pint |-> pv] :
                e0 \in rs, e1 \in rs, pv \in ps}
        ELSE {[name |-> "fit_block", Block |-> block,
               b0 |-> est, ci0 |-> <<est, est>>, r0 |-> e0,
               est |-> "nan", ci1 |-> <<"nan", "nan">>, r1 |-> "nan",
               pint |-> "nan"] : e0 \in rs}

InitMod ==
    /\ pc = "fit_block"
    /\ raised = "none"
    /\ \E n \in 0..MaxPanel : panel \in ClusterPanels(n)
    /\ routine = NoCall
    /\ work = <<>>
    /\ fit = "none"
    /\ loo = <<>>
    /\ moderation = NoCall
    /\ IdleB1 /\ IdleFrame /\ IdleGen /\ IdleA4 /\ IdleSplit /\ IdleCode
    /\ IdleHelpers
    /\ IdleLong /\ IdleCtx /\ IdleResid /\ IdleGmm /\ IdleSig /\ IdleEcho

\* rows.append(fit_block(df, b))
CallFitBlockModeration ==
    /\ pc = "fit_block"
    /\ \E block \in FitBlocks :
         LET sub == BlockRows(panel, block)
         IN  /\ routine' = [name |-> "fit_block", block |-> block]
             /\ work' = sub
             /\ IF sub = <<>>
                THEN /\ fit' = "none"
                     /\ raised' = "RuntimeError"
                     /\ pc' = "raised"
                     /\ UNCHANGED moderation
                ELSE \E o \in OlsOutcomes(panel, sub) :
                       /\ fit' = o
                       /\ raised' = IF o = "raises" THEN "FitError" ELSE "none"
                       /\ pc' = IF o = "raises" THEN "raised" ELSE "done"
                       /\ IF o = "raises"
                          THEN UNCHANGED moderation
                          ELSE moderation' \in ModerationRows(panel, sub, block, o)
    /\ UNCHANGED <<panel, loo>>
    /\ UNCHANGED <<b1Vars, frameVars, genVars, a4Vars, splitVars, codeVars>>
    /\ UNCHANGED helperVars
    /\ UNCHANGED <<longVars, ctxVars, residVars, gmmVars, sigVars, echoVars>>

NextMod == CallFitBlockModeration

SpecMod == InitMod /\ [][NextMod]_vars

-----------------------------------------------------------------------------
(* Claims about the cluster moderation *)

\* the participants of the fitted block that belong to cluster 1
InClusterOne ==
    {panel[work[k]].ResponseId : k \in {j \in 1..Len(work) : panel[work[j]].cluster = 1}}

\* C24: when no participant of the block belongs to cluster 1, fit_block
\* reports the cluster-1 slope, its confidence interval, its effect size
\* and the interaction p-value as NaN, never as a number.
C24_NoClusterOne ==
    (pc = "done" /\ InClusterOne = {}) =>
        /\ moderation.est = "nan"
        /\ moderation.ci1 = <<"nan", "nan">>
        /\ moderation.r1 = "nan"
        /\ moderation.pint = "nan"

\* what fit_block does: with no participant in cluster 1 and complete rows
\* the cluster-1 slope and its interval are numbers (those of cluster 0);
\* only the interaction p-value is NaN.
C24_SlopeOfClusterZero ==
    (pc = "done" /\ InClusterOne = {} /\ fit = "fit") =>
        /\ moderation.est = "num"
        /\ moderation.est = moderation.b0
        /\ moderation.ci1 = <<"num", "num">>
        /\ moderation.pint = "nan"

\* a block whose participants are all in cluster 0 got a number as its
\* cluster-1 slope
C24_NumberReported ==
    /\ pc = "done"
    /\ work # <<>>
    /\ \A k \in 1..Len(work) : panel[work[k]].cluster = 0
    /\ moderation.est = "num"

-----------------------------------------------------------------------------
(* ICC of baseline against mean multi-block rating: main of                *)
(* 08_A4_icc_phase1_vs_phase2.py, for one pair.  The block file of the     *)
(* model maps the pair in one block, so the mean over the pair's columns   *)
(* is the cell of that column.  Both tables have one row per participant.  *)

\* most participants of the cleaned table and of the baseline table
MaxIccRows == 3

\* the orders in which a table can list k of the first n participants
RECURSIVE IdOrders(_, _)
IdOrders(S, k) ==
    IF k = 0 THEN {<<>>}
    ELSE {Append(o, i) : o \in IdOrders(S, k - 1), i \in S} \cap
         {o \in [1..k -> S] : \A a, b \in 1..k : o[a] = o[b] => a = b}

\* means = {"ResponseId": df_wide["ResponseId"].astype(str), pr: mean of
\* the pair's columns}: the participants rate 0 or 1
MeansTables(n) ==
    UNION {{[i \in 1..k |-> [ResponseId |-> RowIds[o[i]], mean |-> Num(v[i])]] :
              o \in IdOrders(1..n, k), v \in [1..k -> {0, 1}]} : k \in 0..n}

\* p1 = pd.read_csv(phase1_csv): participant i has the baseline i - 1
BaselineTables(n) ==
    UNION {{[i \in 1..k |-> [ResponseId |-> RowIds[o[i]], MEAN |-> Num(o[i] - 1)]] :
              o \in IdOrders(1..n, k)} : k \in 0..n}

\* means.merge(p1[["ResponseId"]], on="ResponseId", how="inner"): the rows
\* of means whose participant is in p1, in the order of means
MergeInner(mt, bt) ==
    SelectSeq(mt, LAMBDA r : \E i \in 1..Len(bt) : bt[i].ResponseId = r.ResponseId)

\* r1 = p1_map[pr].values: the MEAN column of p1, every row, in p1's order
BaselineVector(bt) == [i \in 1..Len(bt) |-> bt[i].MEAN]

\* r2 = merged[pr].values
MeanVector(mg) == [i \in 1..Len(mg) |-> mg[i].mean]

InitA4 ==
    /\ pc = "main_a4"
    /\ raised = "none"
    /\ means \in MeansTables(MaxIccRows)
    /\ p1_table \in BaselineTables(MaxIccRows)
    /\ merged = <<>>
    /\ r1 = <<>> /\ r2 = <<>> /\ icc = NoIcc
    /\ IdleClean /\ IdleBH
    /\ IdleLong /\ IdleFit /\ IdleCtx /\ IdleResid /\ IdleGmm /\ IdleSig /\ IdleEcho
    /\ IdleB1 /\ IdleFrame /\ IdleGen /\ IdleMod /\ IdleSplit /\ IdleCode

\* main(clean_csv, phase1_csv, blocks_yaml, out_latex, caption, label)
MainA4 ==
    /\ pc = "main_a4"
    /\ LET mg == MergeInner(means, p1_table)
           a == BaselineVector(p1_table)
           b == MeanVector(mg)
           r == icc_2_1(a, b)
       IN  /\ merged' = mg
           /\ r1' = a
           /\ r2' = b
           /\ icc' = r.icc
           /\ raised' = r.raised
           /\ pc' = IF r.raised = "none" THEN "done" ELSE "raised"
    /\ UNCHANGED <<means, p1_table>>
    /\ UNCHANGED cleanVars /\ UNCHANGED bhVars
    /\ UNCHANGED <<longVars, fitVars, ctxVars, residVars, gmmVars, sigVars, echoVars>>
    /\ UNCHANGED <<b1Vars, frameVars, genVars, modVars, splitVars, codeVars>>

NextA4 == MainA4

SpecA4 == InitA4 /\ [][NextA4]_vars

-----------------------------------------------------------------------------
(* Claims about the ICC stage *)

\* position i of both vectors belongs to the same participant
SameParticipant(i) == p1_table[i].ResponseId = merged[i].ResponseId

\* C25: the two vectors passed to icc_2_1 have the same length and position
\* i of both belongs to the same participant, whatever the row order of the
\* two tables and even when they do not hold the same participants.
C25_VectorsAligned ==
    pc \in {"done", "raised"} =>
        /\ Len(r1) = Len(r2)
        /\ \A i \in 1..Len(r1) : SameParticipant(i)

\* what main does: the vectors are aligned when the baseline table lists
\* participants of the cleaned table only, in the order of the cleaned table
C25_AlignedWhenSameOrder ==
    (/\ pc \in {"done", "raised"}
     /\ \A i \in 1..Len(p1_table) :
           \E j \in 1..Len(means) : means[j].ResponseId = p1_table[i].ResponseId
     /\ \A i, j \in 1..Len(p1_table) : \A a, b \in 1..Len(means) :
           (/\ i < j
            /\ means[a].ResponseId = p1_table[i].ResponseId
            /\ means[b].ResponseId = p1_table[j].ResponseId) => a < b)
      => (Len(r1) = Len(r2) /\ \A i \in 1..Len(r1) : SameParticipant(i))

\* both tables hold the same three participants in different orders: an
\* ICC was computed from ratings of different participants
C25_Misaligned ==
    /\ pc = "done"
    /\ Len(r1) = 3 /\ Len(r2) = 3
    /\ {p1_table[i].ResponseId : i \in 1..3} = {merged[i].ResponseId : i \in 1..3}
    /\ \E i \in 1..3 : ~SameParticipant(i)

\* the baseline table holds a participant the cleaned table lacks: the
\* vectors differ in length and icc_2_1 raises
C25_LengthsDiffer ==
    /\ pc = "raised"
    /\ Len(r1) = 3 /\ Len(r2) = 2

-----------------------------------------------------------------------------
(* split_pair_name (14_B4_theory_profiles.py) on strings.  A string is the *)
(* sequence of its characters, so that str.startswith and the slice        *)
(* pair[len(v):] are computed on characters.                               *)

\* the characters of each value name of VALUES, and of two words that are
\* no value name: "Harm", and "Car", the beginning of a value name
Spelling ==
    [Care |-> <<"C", "a", "r", "e">>,
     Fairness |-> <<"F", "a", "i", "r", "n", "e", "s", "s">>,
     Loyalty |-> <<"L", "o", "y", "a", "l", "t", "y">>,
     Authority |-> <<"A", "u", "t", "h", "o", "r", "i", "t", "y">>,
     Sanctity |-> <<"S", "a", "n", "c", "t", "i", "t", "y">>,
     Liberty |-> <<"L", "i", "b", "e", "r", "t", "y">>,
     Harm |-> <<"H", "a", "r", "m">>,
     Car |-> <<"C", "a", "r">>]

\* most words a name given to split_pair_name is made of
MaxWords == 2
\* the names given: up to MaxWords words written one after the other
RECURSIVE NamesOf(_)
NamesOf(n) ==
    IF n = 0 THEN {<<>>}
    ELSE NamesOf(n - 1) \cup
         {nm \o Spelling[w] : nm \in NamesOf(n - 1), w \in DOMAIN Spelling}

\* pair.startswith(v)
StrStartsWithMutFirstChar(s, v) ==
    Len(s) >= 1 /\ s[1] = v[1]
StrStartsWith(s, v) ==
    Len(s) >= Len(v) /\ SubSeq(s, 1, Len(v)) = v

\* pair[len(v):]
SliceFrom(s, n) == SubSeq(s, n + 1, Len(s))

\* the loop over VALUES from position j on: the first value the name
\* starts with is returned with what follows it, whatever follows
RECURSIVE SplitLoop(_, _)
SplitLoop(pair, j) ==
    IF j > Len(VALUES) THEN [raised |-> "ValueError", L |-> "", R |-> <<>>]
    ELSE IF StrStartsWith(pair, Spelling[VALUES[j]])
         THEN [raised |-> "none", L |-> VALUES[j],
               R |-> SliceFrom(pair, Len(Spelling[VALUES[j]]))]
         ELSE SplitLoop(pair, j + 1)

SplitPairName(pair) == SplitLoop(pair, 1)

InitSplit ==
    /\ pc = "split_pair_name"
    /\ raised = "none"
    /\ pair_name \in NamesOf(MaxWords)
    /\ split = NoCall
    /\ IdleB1 /\ IdleFrame /\ IdleGen /\ IdleMod /\ IdleA4 /\ IdleCode
    /\ IdleHelpers
    /\ IdleLong /\ IdleFit /\ IdleCtx /\ IdleResid /\ IdleGmm /\ IdleSig /\ IdleEcho

\* L, R = split_pair_name(pair)
CallSplitPairName ==
    /\ pc = "split_pair_name"
    /\ LET r == SplitPairName(pair_name)
       IN  /\ split' = r
           /\ raised' = r.raised
           /\ pc' = IF r.raised = "none" THEN "done" ELSE "raised"
    /\ UNCHANGED pair_name
    /\ UNCHANGED <<b1Vars, frameVars, genVars, modVars, a4Vars, codeVars>>
    /\ UNCHANGED helperVars
    /\ UNCHANGED <<longVars, fitVars, ctxVars, residVars, gmmVars, sigVars, echoVars>>

NextSplit == CallSplitPairName

SpecSplit == InitSplit /\ [][NextSplit]_vars

-----------------------------------------------------------------------------
(* Claims about split_pair_name *)

Catalog == {VALUES[j] : j \in 1..Len(VALUES)}

\* the ordered pairs of distinct catalog values the name is the
\* concatenation of
ConcatenationOf ==
    {lr \in Catalog \X Catalog :
        lr[1] # lr[2] /\ pair_name = Spelling[lr[1]] \o Spelling[lr[2]]}

\* the catalog values the name starts with
PrefixValues ==
    {v \in Catalog :
        /\ Len(pair_name) >= Len(Spelling[v])
        /\ \A k \in 1..Len(Spelling[v]) : pair_name[k] = Spelling[v][k]}

\* C26: split_pair_name returns (L, R) only when L and R are two distinct
\* catalog values whose concatenation is the name, returns exactly (L, R)
\* for every such concatenation, and raises for every other name.
C26_SplitValidates ==
    pc \in {"done", "raised"} =>
        IF ConcatenationOf # {}
        THEN /\ pc = "done"
             /\ <<split.L, split.R>> \in
                   {<<lr[1], Spelling[lr[2]]>> : lr \in ConcatenationOf}
        ELSE pc = "raised" /\ raised = "ValueError"

\* C26 as amended: split_pair_name returns (L, R) with L the catalog value
\* the name starts with and R whatever follows it, so that L + R is the
\* name; for every ordered pair of distinct catalog values (L, R) it
\* returns (L, R) for L + R; it raises ValueError exactly when the name
\* starts with no catalog value.
C26_SplitFirstPrefix ==
    pc \in {"done", "raised"} =>
        /\ Cardinality(PrefixValues) <= 1
        /\ IF PrefixValues = {}
           THEN pc = "raised" /\ raised = "ValueError"
           ELSE /\ pc = "done"
                /\ split.L \in PrefixValues
                /\ Spelling[split.L] \o split.R = pair_name
        /\ \A lr \in ConcatenationOf :
              pc = "done" /\ split.L = lr[1] /\ split.R = Spelling[lr[2]]

\* "CareFairness" was split into Care and Fairness
C26_Witness ==
    /\ pc = "done"
    /\ pair_name = Spelling["Care"] \o Spelling["Fairness"]
    /\ split.L = "Care"
    /\ split.R = Spelling["Fairness"]

\* names that are no concatenation of two distinct values were split too:
\* "Care" into Care and the empty string, "CareCare" into Care and Care,
\* "CareHarm" into Care and Harm
C26_WitnessUnvalidated ==
    /\ pc = "done"
    /\ ConcatenationOf = {}
    /\ split.L = "Care"
    /\ split.R \in {<<>>, Spelling["Care"], Spelling["Harm"]}

\* "CarFairness" starts with no value name: ValueError
C26_WitnessRaises ==
    /\ pc = "raised"
    /\ pair_name = Spelling["Car"] \o Spelling["Fairness"]


-----------------------------------------------------------------------------
(* The block coding of fit_context_model (09_A5_context_interaction.py).   *)
(* The panel is read from a file, so a block label is whatever the file    *)
(* holds; design keeps, for every row of the fitted sample, the block      *)
(* columns of X.                                                           *)

\* most rows of a panel given to fit_context_model
MaxCodeRows == 2

\* a block label outside the five categories
UnknownBlock == "QH4"
CodeBlocks == <<"QH1", "QH2", "QH6", UnknownBlock>>

\* the panels of n rows whose blocks are any of CodeBlocks
CodePanels(n) ==
    {[i \in 1..n |->
        [ResponseId |-> RowIds[((i - 1) % 2) + 1], pair |-> SortedPairs[1],
         block |-> CodeBlocks[b[i]], PhaseI |-> v[i].PhaseI,
         PhaseII |-> v[i].PhaseII]] :
       b \in [1..n -> 1..Len(CodeBlocks)], v \in [1..n -> PanelValues]}

\* pd.Categorical(values, categories=order): a value that is no category
\* becomes the missing category (<<>>)
Categorical(label, order) == IF label \in Range(order) THEN <<label>> ELSE <<>>

\* one row of pd.get_dummies(categorical, prefix="block", drop_first=True):
\* the column of the row's category is 1, the missing category has none
BlockDummies(cat, order) ==
    [b \in CategoricalDummies(order) |-> IF cat = <<b>> THEN 1 ELSE 0]

\* X[f"{c}:PhaseI"] = work["PhaseI"] * fe_block[c], for one row
Interactions(x, dummies) == [b \in DOMAIN dummies |-> x * dummies[b]]

\* the block columns of X for the rows of p at positions s
BlockColumns(p, s) ==
    [k \in 1..Len(s) |->
        LET row == p[s[k]]
            fe_block == BlockDummies(Categorical(row.block, ContextOrder),
                                     ContextOrder)
        IN  [block |-> row.block,
             fe_block |-> fe_block,
             inter |-> Interactions(row.PhaseI.v, fe_block)]]

InitCode ==
    /\ pc = "context_coding"
    /\ raised = "none"
    /\ \E n \in 0..MaxCodeRows : panel \in CodePanels(n)
    /\ routine = NoCall
    /\ work = <<>>
    /\ fit = "none"
    /\ loo = <<>>
    /\ design = <<>>
    /\ IdleB1 /\ IdleFrame /\ IdleGen /\ IdleMod /\ IdleA4 /\ IdleSplit
    /\ IdleHelpers
    /\ IdleLong /\ IdleCtx /\ IdleResid /\ IdleGmm /\ IdleSig /\ IdleEcho

\* mod, work = fit_context_model(panel): dropna, the categorical block, the
\* dummies and interactions, the fit
FitContextModel ==
    /\ pc = "context_coding"
    /\ LET s == OlsSample(panel, AllPositions(panel),
                          {"ResponseId", "PhaseII", "PhaseI", "pair", "block"})
       IN  /\ routine' = [name |-> "fit_context_model"]
           /\ work' = s
           /\ design' = BlockColumns(panel, s)
           /\ \E o \in OlsOutcomes(panel, s) : FitReturns(o)
    /\ UNCHANGED <<panel, loo>>
    /\ UNCHANGED <<b1Vars, frameVars, genVars, modVars, a4Vars, splitVars>>
    /\ UNCHANGED helperVars
    /\ UNCHANGED <<longVars, ctxVars, residVars, gmmVars, sigVars, echoVars>>

NextCode == FitContextModel

SpecCode == InitCode /\ [][NextCode]_vars

-----------------------------------------------------------------------------
(* Claims about the block coding *)

\* the row of the sample is coded as the reference block: every block
\* indicator and every interaction column is zero
CodedAsReference(d) ==
    \A b \in DOMAIN d.fe_block : d.fe_block[b] = 0 /\ d.inter[b] = 0

\* C30: only rows whose block is one of QH1, QH2, QH3, QH5, QH6 enter the
\* fitted sample, and a row is coded as the reference block (all block
\* indicators and interaction columns zero) iff its block is QH1.
C30_KnownBlocksOnly ==
    (pc = "done" /\ routine.name = "fit_context_model") =>
        \A k \in 1..Len(design) :
            /\ design[k].block \in Range(ContextOrder)
            /\ CodedAsReference(design[k]) <=> design[k].block = "QH1"

\* what does hold: a row of one of the five blocks is coded as the reference
\* iff its block is QH1, and a row of another block has exactly its own
\* indicator set
C30_KnownBlocksCoded ==
    (pc = "done" /\ routine.name = "fit_context_model") =>
        /\ Len(design) = Len(work)
        /\ \A k \in 1..Len(design) :
             design[k].block \in Range(ContextOrder) =>
                /\ CodedAsReference(design[k]) <=> design[k].block = "QH1"
                /\ \A b \in DOMAIN design[k].fe_block :
                     design[k].fe_block[b] = 1 <=> design[k].block = b

\* a model fitted to a sample that holds a row of an unknown block, coded
\* like the row of QH1 next to it
C30_UnknownAsReference ==
    /\ pc = "done"
    /\ fit = "fit"
    /\ \E j, k \in 1..Len(design) :
         /\ design[j].block = UnknownBlock
         /\ design[k].block = "QH1"
         /\ design[j].fe_block = design[k].fe_block
         /\ design[j].inter = design[k].inter

=============================================================================
